---- MODULE Spec2Model ----
(***************************************************************************)
(* Bitstring Status List debugger: the BitstringService decode pipeline    *)
(* (fetchStatusList and its stages) and the bit accessor (getBitStatus,    *)
(* getBitRange), modelled from src/unnamed/part_005 (the result-returning  *)
(* service) and src/unnamed/part_001 (the types and the ErrorCode enum).   *)
(*                                                                         *)
(* The specifications share the variables:                                 *)
(*   SpecBits      the bit accessor called on a decoded status list        *)
(*   Spec          one fetchStatusList invocation after another            *)
(*   SpecEnvelope  decodeEnvelopedCredential on enveloped credentials      *)
(*   SpecCodec     decodeStatusList on encoded buffers                     *)
(*   SpecHome      the page's handleFetchStatusList and its awaits         *)
(*   SpecInput     the page driven through StatusListInput's form          *)
(***************************************************************************)
EXTENDS Integers, Sequences, FiniteSets, TLC

VARIABLES
    decodedBits,     \* DecodedStatusList.decodedBits: the Uint8Array being read
    statusPurpose,   \* bitstringList.statusPurpose of the credential being read
    query,           \* the accessor call BitViewer makes
    answer,          \* what that call returned
    pc,              \* where the fetchStatusList invocation stands
    stages,          \* the stages this invocation has run, in order
    fetchError,      \* what fetch(url) threw
    response,        \* the Response fetch(url) resolved with
    credential,      \* what response.json() resolved with
    statusListCredential,  \* the unwrapped credential
    credentialType,  \* 'embedded' or 'enveloped'
    compressed,      \* the Base64URL-decoded buffer inside decodeStatusList
    result,          \* the StatusListResult the invocation resolved to
    thrown,          \* the functions that threw during this invocation
    loading,         \* Home: a fetch is in progress
    decoded,         \* Home: the DecodedStatusList shown, or null
    error,           \* Home: the DetailedError shown, or null
    currentUrl,      \* Home: the URL last fetched
    autoCheckResult, \* Home: the bit checked from the URL fragment, or null
    url,             \* StatusListInput: the text of the URL field
    calls,           \* the handleFetchStatusList invocations, in start order
    lastEvent        \* what the last handler run did

bitVars == <<decodedBits, statusPurpose, query, answer>>

pipelineVars == <<pc, stages, fetchError, response, credential, statusListCredential,
                  credentialType, compressed, result, thrown>>

homeVars == <<loading, decoded, error, currentUrl, autoCheckResult, url, calls,
              lastEvent>>

vars == <<bitVars, pipelineVars, homeVars>>

(***************************************************************************)
(* Bounds of the model.                                                    *)
(***************************************************************************)
MaxLen == 2          \* short byte arrays: every content over ByteVals
LongLen == 1251      \* one long byte array, more than 10000 bits
Margin == 2          \* how far outside [0, maxIndex] the arguments go

ByteVals == {0, 1, 178, 255}

\* An optional value (a TypeScript `x?: T`, or undefined) is a set of at most
\* one element.
Undefined == {}
Some(x) == {x}

(***************************************************************************)
(* part_001: the ErrorCode enum and DetailedError.                         *)
(***************************************************************************)
ErrorCode ==
    { "NETWORK_ERROR", "CORS_ERROR", "TIMEOUT",
      "NOT_FOUND", "UNAUTHORIZED", "FORBIDDEN", "SERVER_ERROR", "BAD_GATEWAY",
      "SERVICE_UNAVAILABLE",
      "INVALID_JSON", "INVALID_CREDENTIAL_FORMAT", "MISSING_CREDENTIAL_TYPE",
      "UNSUPPORTED_CREDENTIAL_TYPE", "MISSING_BITSTRING_LIST",
      "BASE64_DECODE_ERROR", "GZIP_DECODE_ERROR", "JWT_PARSE_ERROR",
      "DECOMPRESSION_ERROR",
      "INVALID_BIT_INDEX", "INVALID_BIT_RANGE",
      "UNKNOWN_ERROR" }

\* A message or details text: the template and the values interpolated in it.
Text(s) == [text |-> s, args |-> <<>>]
Fmt(s, a) == [text |-> s, args |-> a]

createError(code, message, details, statusCode) ==
    [kind |-> "error", code |-> code, message |-> message,
     details |-> details, statusCode |-> statusCode]

(***************************************************************************)
(* JavaScript arithmetic used by the accessor.                             *)
(***************************************************************************)
\* a % n of JavaScript: the sign of the result is the sign of a.
JsRem(a, n) == IF a >= 0 THEN a % n ELSE -((-a) % n)

\* Math.floor(a / n) for n > 0.
MathFloorDiv(a, n) == IF a >= 0 THEN a \div n ELSE -(((-a) + n - 1) \div n)

\* 1 << k: the shift count is taken modulo 32 and the result is an int32.
Shl1(k) == LET c == k % 32 IN IF c = 31 THEN (-2147483647) - 1 ELSE 2 ^ c

\* a & b on non-negative integers.
RECURSIVE BitAndNat(_, _)
BitAndNat(a, b) ==
    IF a = 0 \/ b = 0 THEN 0
    ELSE (IF a % 2 = 1 /\ b % 2 = 1 THEN 1 ELSE 0)
         + 2 * BitAndNat(a \div 2, b \div 2)

\* a & b for a byte a (0..255) and an int32 b: only the low 8 bits of b (two's
\* complement) take part.
BitAnd(a, b) == BitAndNat(a, b % 256)

\* decodedBits[k] of a Uint8Array: undefined outside 0..length-1, and
\* undefined is 0 under &.
ByteAt(B, k) == IF k >= 0 /\ k < Len(B) THEN B[k + 1] ELSE 0

(***************************************************************************)
(* part_005 364-391: getBitStatus.                                         *)
(***************************************************************************)
Bool(b) == [kind |-> "boolean", value |-> b]

\* Mutant: bit 0 taken as the most significant bit of the byte.
getBitStatus_MsbFirst(B, index) ==
    IF index < 0
    THEN createError("INVALID_BIT_INDEX", Text("Invalid bit index"),
                     Fmt("Bit index must be non-negative, but got %.", <<index>>),
                     Undefined)
    ELSE LET byteIndex == MathFloorDiv(index, 8)
             bitIndex == 7 - JsRem(index, 8)
             maxIndex == Len(B) * 8 - 1
         IN  IF byteIndex >= Len(B)
             THEN createError("INVALID_BIT_INDEX", Text("Bit index out of range"),
                              Fmt("Index % exceeds the maximum index %.",
                                  <<index, maxIndex>>),
                              Undefined)
             ELSE Bool(BitAnd(ByteAt(B, byteIndex), Shl1(bitIndex)) # 0)

\* Mutant: the index < 0 check left out.
getBitStatus_NoNegativeCheck(B, index) ==
    LET byteIndex == MathFloorDiv(index, 8)
        bitIndex == JsRem(index, 8)
        maxIndex == Len(B) * 8 - 1
    IN  IF byteIndex >= Len(B)
        THEN createError("INVALID_BIT_INDEX", Text("Bit index out of range"),
                         Fmt("Index % exceeds the maximum index %.",
                             <<index, maxIndex>>),
                         Undefined)
        ELSE Bool(BitAnd(ByteAt(B, byteIndex), Shl1(bitIndex)) # 0)

getBitStatus(B, index) ==
    IF index < 0
    THEN createError("INVALID_BIT_INDEX", Text("Invalid bit index"),
                     Fmt("Bit index must be non-negative, but got %.", <<index>>),
                     Undefined)
    ELSE LET byteIndex == MathFloorDiv(index, 8)
             bitIndex == JsRem(index, 8)
             maxIndex == Len(B) * 8 - 1
         IN  IF byteIndex >= Len(B)
             THEN createError("INVALID_BIT_INDEX", Text("Bit index out of range"),
                              Fmt("Index % exceeds the maximum index %.",
                                  <<index, maxIndex>>),
                              Undefined)
             ELSE Bool(BitAnd(ByteAt(B, byteIndex), Shl1(bitIndex)) # 0)

(***************************************************************************)
(* part_005 393-460: getBitRange.                                          *)
(***************************************************************************)
MaxRangeSize == 10000

Array(entries) == [kind |-> "array", entries |-> entries]

\* Mutant: the loop runs while i < endIndex.
RangeLoop_ExclusiveEnd(B, startIndex, endIndex, purpose) ==
    [k \in 1..(endIndex - startIndex) |->
        [index |-> startIndex + k - 1,
         status |-> getBitStatus(B, startIndex + k - 1).value,
         purpose |-> purpose]]

\* The loop of lines 447-457: one candidate per i in startIndex..endIndex, kept
\* when getBitStatus returned a boolean.
RangeLoop(B, startIndex, endIndex, purpose) ==
    LET n == endIndex - startIndex + 1
        tried == [k \in 1..n |->
                    [index |-> startIndex + k - 1,
                     bitStatus |-> getBitStatus(B, startIndex + k - 1)]]
        pushed == SelectSeq(tried, LAMBDA t : t.bitStatus.kind = "boolean")
    IN  [k \in 1..Len(pushed) |->
            [index |-> pushed[k].index,
             status |-> pushed[k].bitStatus.value,
             purpose |-> purpose]]

\* Mutant: no cap on the range size.
getBitRange_NoCap(B, startIndex, endIndex) ==
    IF startIndex < 0 \/ endIndex < startIndex
    THEN createError("INVALID_BIT_RANGE", Text("Invalid bit range"),
                     Fmt("End index (%) must be greater than or equal to start index (%).",
                         <<endIndex, startIndex>>),
                     Undefined)
    ELSE LET maxIndex == Len(B) * 8 - 1
         IN  IF startIndex > maxIndex \/ endIndex > maxIndex
             THEN createError("INVALID_BIT_RANGE", Text("End index out of range"),
                              Fmt("End index % exceeds the maximum index %.",
                                  <<endIndex, maxIndex>>),
                              Undefined)
             ELSE Array(RangeLoop(B, startIndex, endIndex, "revocation"))

\* A variant of lines 393-445 that checks the end against maxIndex before the
\* start.
getBitRange_EndFirst(B, startIndex, endIndex) ==
    IF startIndex < 0
    THEN createError("INVALID_BIT_RANGE", Text("Invalid start index"),
                     Fmt("Start index must be non-negative, but got %.",
                         <<startIndex>>),
                     Undefined)
    ELSE IF endIndex < startIndex
    THEN createError("INVALID_BIT_RANGE", Text("Invalid bit range"),
                     Fmt("End index (%) must be greater than or equal to start index (%).",
                         <<endIndex, startIndex>>),
                     Undefined)
    ELSE LET maxIndex == Len(B) * 8 - 1
         IN  IF endIndex > maxIndex
             THEN createError("INVALID_BIT_RANGE", Text("End index out of range"),
                              Fmt("End index % exceeds the maximum index %.",
                                  <<endIndex, maxIndex>>),
                              Undefined)
             ELSE LET rangeSize == endIndex - startIndex + 1
                  IN  IF rangeSize > MaxRangeSize
                      THEN createError("INVALID_BIT_RANGE", Text("Range too large"),
                                       Fmt("Range size (%) is too large. Maximum allowed is 10000 bits.",
                                           <<rangeSize>>),
                                       Undefined)
                      ELSE Array(RangeLoop(B, startIndex, endIndex, "revocation"))

getBitRange(B, startIndex, endIndex) ==
    IF startIndex < 0
    THEN createError("INVALID_BIT_RANGE", Text("Invalid start index"),
                     Fmt("Start index must be non-negative, but got %.",
                         <<startIndex>>),
                     Undefined)
    ELSE IF endIndex < startIndex
    THEN createError("INVALID_BIT_RANGE", Text("Invalid bit range"),
                     Fmt("End index (%) must be greater than or equal to start index (%).",
                         <<endIndex, startIndex>>),
                     Undefined)
    ELSE LET maxIndex == Len(B) * 8 - 1
         IN  IF startIndex > maxIndex
             THEN createError("INVALID_BIT_RANGE", Text("Start index out of range"),
                              Fmt("Start index % exceeds the maximum index %.",
                                  <<startIndex, maxIndex>>),
                              Undefined)
             ELSE IF endIndex > maxIndex
             THEN createError("INVALID_BIT_RANGE", Text("End index out of range"),
                              Fmt("End index % exceeds the maximum index %.",
                                  <<endIndex, maxIndex>>),
                              Undefined)
             ELSE LET rangeSize == endIndex - startIndex + 1
                  IN  IF rangeSize > MaxRangeSize
                      THEN createError("INVALID_BIT_RANGE", Text("Range too large"),
                                       Fmt("Range size (%) is too large. Maximum allowed is 10000 bits.",
                                           <<rangeSize>>),
                                       Undefined)
                      ELSE Array(RangeLoop(B, startIndex, endIndex, "revocation"))

(***************************************************************************)
(* src/services/bitstringService.ts 143-175: getBitStatus and getBitRange  *)
(* of the service that throws instead of returning a DetailedError.        *)
(***************************************************************************)
Thrown(message) == [kind |-> "thrown", message |-> message]

\* Lines 143-153.  decodedBits[byteIndex] is undefined for a negative
\* byteIndex, and undefined & x is 0.
getBitStatusOrThrow(B, index) ==
    LET byteIndex == MathFloorDiv(index, 8)
        bitIndex == JsRem(index, 8)
    IN  IF byteIndex >= Len(B)
        THEN Thrown(Fmt("Index % is out of range (max: %)",
                        <<index, Len(B) * 8 - 1>>))
        ELSE Bool(BitAnd(ByteAt(B, byteIndex), Shl1(bitIndex)) # 0)

\* Lines 155-175.  A throw of getBitStatus inside the loop leaves getBitRange.
getBitRangeOrThrow(B, startIndex, endIndex) ==
    IF startIndex < 0 \/ endIndex < startIndex
    THEN Thrown(Text("Invalid range: startIndex must be >= 0 and endIndex must be >= startIndex"))
    ELSE LET maxIndex == Len(B) * 8 - 1
         IN  IF startIndex > maxIndex \/ endIndex > maxIndex
             THEN Thrown(Fmt("Range [%, %] exceeds maximum index %",
                             <<startIndex, endIndex, maxIndex>>))
             ELSE LET n == endIndex - startIndex + 1
                      tried == [k \in 1..n |->
                                   getBitStatusOrThrow(B, startIndex + k - 1)]
                  IN  IF \E k \in 1..n : tried[k].kind = "thrown"
                      THEN tried[CHOOSE k \in 1..n :
                                    /\ tried[k].kind = "thrown"
                                    /\ \A j \in 1..(k - 1) : tried[j].kind # "thrown"]
                      ELSE Array([k \in 1..n |->
                                     [index |-> startIndex + k - 1,
                                      status |-> tried[k].value,
                                      purpose |-> "revocation"]])

(***************************************************************************)
(* JSON values: what response.json() and JSON.parse produce.  An object's  *)
(* fields are a function from its keys; a string is its sequence of        *)
(* characters.                                                             *)
(***************************************************************************)
JNull == [kind |-> "null"]
JNum(n) == [kind |-> "number", value |-> n]
JStr(chars) == [kind |-> "string", chars |-> chars]
JArr(items) == [kind |-> "array", items |-> items]
JObj(fields) == [kind |-> "object", fields |-> fields]

\* v.key for a value v that is not null: undefined unless v is an object with
\* that key.
Get(v, key) ==
    IF v.kind = "object" /\ key \in DOMAIN v.fields
    THEN Some(v.fields[key])
    ELSE Undefined

\* The one element of a non-empty optional.
The(opt) == CHOOSE x \in opt : TRUE

\* !x of JavaScript on an optional JSON value.
Falsy(opt) ==
    \/ opt = Undefined
    \/ \E v \in opt :
         \/ v.kind = "null"
         \/ v.kind = "number" /\ v.value = 0
         \/ v.kind = "string" /\ v.chars = <<>>
         \/ v.kind = "boolean" /\ ~v.value

\* Reading a property of null or undefined throws a TypeError.
ThrowsOnRead(opt) == opt = Undefined \/ (\E v \in opt : v.kind = "null")

\* opt === 'chars'
IsString(opt, chars) == opt = Some(JStr(chars))

(***************************************************************************)
(* String operations of part_005 on sequences of characters.               *)
(***************************************************************************)
startsWith(str, prefix) ==
    /\ Len(str) >= Len(prefix)
    /\ SubSeq(str, 1, Len(prefix)) = prefix

\* str.substring(n)
substring(str, n) == SubSeq(str, n + 1, Len(str))

\* A variant of str.split(sep) that leaves out the empty segments.
RECURSIVE split_SkipsEmpty(_, _)
split_SkipsEmpty(str, sep) ==
    IF \A i \in 1..Len(str) : str[i] # sep
    THEN IF str = <<>> THEN <<>> ELSE <<str>>
    ELSE LET first == CHOOSE i \in 1..Len(str) :
                         /\ str[i] = sep
                         /\ \A j \in 1..(i - 1) : str[j] # sep
         IN  (IF first = 1 THEN <<>> ELSE <<SubSeq(str, 1, first - 1)>>)
                 \o split_SkipsEmpty(SubSeq(str, first + 1, Len(str)), sep)

\* str.split(sep) for a one-character separator: the segments between the
\* occurrences of sep, empty segments included.
RECURSIVE split(_, _)
split(str, sep) ==
    IF \A i \in 1..Len(str) : str[i] # sep
    THEN <<str>>
    ELSE LET first == CHOOSE i \in 1..Len(str) :
                         /\ str[i] = sep
                         /\ \A j \in 1..(i - 1) : str[j] # sep
         IN  <<SubSeq(str, 1, first - 1)>>
                 \o split(SubSeq(str, first + 1, Len(str)), sep)

\* A variant that leaves '-' and '_' in place.
toBase64Alphabet_Identity(str) == str

\* str.replace(/-/g, '+').replace(/_/g, '/')
toBase64Alphabet(str) ==
    [i \in 1..Len(str) |->
        IF str[i] = "-" THEN "+" ELSE IF str[i] = "_" THEN "/" ELSE str[i]]

\* '='.repeat(n)
repeatEquals(n) == [i \in 1..n |-> "="]

(***************************************************************************)
(* atob (WHATWG forgiving-base64 decode) on a string without whitespace.   *)
(***************************************************************************)
Base64Alphabet ==
    <<"A", "B", "C", "D", "E", "F", "G", "H", "I", "J", "K", "L", "M", "N",
      "O", "P", "Q", "R", "S", "T", "U", "V", "W", "X", "Y", "Z", "a", "b",
      "c", "d", "e", "f", "g", "h", "i", "j", "k", "l", "m", "n", "o", "p",
      "q", "r", "s", "t", "u", "v", "w", "x", "y", "z", "0", "1", "2", "3",
      "4", "5", "6", "7", "8", "9", "+", "/">>

Base64Chars == {Base64Alphabet[i] : i \in 1..64}

Sextet(c) == (CHOOSE i \in 1..64 : Base64Alphabet[i] = c) - 1

\* The bytes of a string of alphabet characters whose length is not 1 mod 4:
\* each full group of 4 gives 3 bytes, a last group of 2 or 3 gives 1 or 2 and
\* its spare bits are dropped.
Base64Bytes(str) ==
    LET n == (Len(str) * 6) \div 8
        at(i) == Sextet(str[i])
    IN  [k \in 1..n |->
            LET g == 4 * ((k - 1) \div 3)
                r == (k - 1) % 3
            IN  IF r = 0 THEN at(g + 1) * 4 + at(g + 2) \div 16
                ELSE IF r = 1 THEN (at(g + 2) % 16) * 16 + at(g + 3) \div 4
                ELSE (at(g + 3) % 4) * 64 + at(g + 4)]

Ok(value) == [ok |-> TRUE, value |-> value]
Threw(message) == [ok |-> FALSE, message |-> message]

atob(str) ==
    LET n == Len(str)
        data == IF n % 4 = 0 /\ n >= 2 /\ str[n] = "=" /\ str[n - 1] = "="
                    THEN SubSeq(str, 1, n - 2)
                ELSE IF n % 4 = 0 /\ n >= 1 /\ str[n] = "="
                    THEN SubSeq(str, 1, n - 1)
                ELSE str
    IN  IF Len(data) % 4 = 1 \/ (\E i \in 1..Len(data) : data[i] \notin Base64Chars)
        THEN Threw("InvalidCharacterError")
        ELSE Ok(Base64Bytes(data))

(***************************************************************************)
(* pako's inflate, as far as the inputs of the model go: stored DEFLATE    *)
(* blocks, the GZIP wrapper without optional header fields, and the        *)
(* CRC-32 and length of the GZIP trailer.  A Huffman-coded block has the   *)
(* status "huffman"; no input of the model holds one.                      *)
(***************************************************************************)
\* B[k] for a 0-based k inside the buffer.
Byte(B, k) == B[k + 1]

\* a ^ b on 16-bit values.
RECURSIVE Xor16(_, _)
Xor16(a, b) ==
    IF a = 0 THEN b
    ELSE IF b = 0 THEN a
    ELSE (IF a % 2 = b % 2 THEN 0 ELSE 1) + 2 * Xor16(a \div 2, b \div 2)

\* One bit of the reflected CRC-32 (polynomial 0xEDB88320); c is <<high 16
\* bits, low 16 bits>>.
CrcShift(c) ==
    LET hi == c[1] \div 2
        lo == (c[2] \div 2) + (c[1] % 2) * 32768
    IN  IF c[2] % 2 = 1 THEN <<Xor16(hi, 60856), Xor16(lo, 33568)>> ELSE <<hi, lo>>

RECURSIVE CrcShifts(_, _)
CrcShifts(c, n) == IF n = 0 THEN c ELSE CrcShifts(CrcShift(c), n - 1)

\* The table of the byte-wise CRC-32: eight shifts of each byte value.
CrcTable == [n \in 0..255 |-> CrcShifts(<<0, n>>, 8)]

\* crc = (crc >>> 8) ^ table[(crc ^ B[k]) & 0xFF], for the bytes from k on.
RECURSIVE CrcUpdate(_, _, _)
CrcUpdate(c, B, k) ==
    IF k > Len(B) THEN c
    ELSE LET t == CrcTable[Xor16(c[2] % 256, B[k])]
         IN  CrcUpdate(<<Xor16(c[1] \div 256, t[1]),
                         Xor16((c[2] \div 256) + (c[1] % 256) * 256, t[2])>>,
                       B, k + 1)

\* crc32(B) as <<high 16 bits, low 16 bits>>.
Crc32(B) ==
    LET c == CrcUpdate(<<65535, 65535>>, B, 1)
    IN  <<Xor16(c[1], 65535), Xor16(c[2], 65535)>>

\* The DEFLATE blocks of B from byte p on (0-based), appended to out.
RECURSIVE InflateBlocks(_, _, _)
InflateBlocks(B, p, out) ==
    IF p >= Len(B) THEN [status |-> "incomplete"]
    ELSE LET header == Byte(B, p)
             final == header % 2 = 1
             btype == (header \div 2) % 4
         IN  IF btype = 3
             THEN [status |-> "error", message |-> "invalid block type"]
             ELSE IF btype # 0
             THEN [status |-> "huffman"]
             ELSE IF p + 4 >= Len(B)
             THEN [status |-> "incomplete"]
             ELSE LET len == Byte(B, p + 1) + 256 * Byte(B, p + 2)
                      nlen == Byte(B, p + 3) + 256 * Byte(B, p + 4)
                  IN  IF len + nlen # 65535
                      THEN [status |-> "error",
                            message |-> "invalid stored block lengths"]
                      ELSE IF p + 5 + len > Len(B)
                      THEN [status |-> "incomplete"]
                      ELSE LET data == out \o SubSeq(B, p + 6, p + 5 + len)
                           IN  IF final
                               THEN [status |-> "end", data |-> data,
                                     next |-> p + 5 + len]
                               ELSE InflateBlocks(B, p + 5 + len, data)

\* inflate(B, { raw: true })
inflateRaw(B) ==
    LET r == InflateBlocks(B, 0, <<>>)
    IN  IF r.status = "end" THEN [status |-> "end", data |-> r.data] ELSE r

\* inflate(B) on a buffer that starts with the GZIP magic bytes.
inflateGzip(B) ==
    IF Len(B) < 10 THEN [status |-> "incomplete"]
    ELSE IF Byte(B, 2) # 8
    THEN [status |-> "error", message |-> "unknown compression method"]
    ELSE IF Byte(B, 3) \div 32 # 0
    THEN [status |-> "error", message |-> "unknown header flags set"]
    ELSE IF Byte(B, 3) # 0
    THEN [status |-> "huffman"]
    ELSE LET r == InflateBlocks(B, 10, <<>>)
         IN  IF r.status # "end" THEN r
             ELSE IF r.next + 8 > Len(B) THEN [status |-> "incomplete"]
             ELSE LET t == r.next
                      crc == <<Byte(B, t + 2) + 256 * Byte(B, t + 3),
                               Byte(B, t) + 256 * Byte(B, t + 1)>>
                      isize == <<Byte(B, t + 6) + 256 * Byte(B, t + 7),
                                 Byte(B, t + 4) + 256 * Byte(B, t + 5)>>
                  IN  IF crc # Crc32(r.data)
                      THEN [status |-> "error", message |-> "incorrect data check"]
                      ELSE IF isize # <<Len(r.data) \div 65536, Len(r.data) % 65536>>
                      THEN [status |-> "error", message |-> "incorrect length check"]
                      ELSE [status |-> "end", data |-> r.data]

(***************************************************************************)
(* The strings of the model, character by character.                       *)
(***************************************************************************)
EnvelopedVerifiableCredential ==
    <<"E", "n", "v", "e", "l", "o", "p", "e", "d", "V", "e", "r", "i", "f",
    "i", "a", "b", "l", "e", "C", "r", "e", "d", "e", "n", "t", "i", "a",
    "l">>

BitstringStatusList ==
    <<"B", "i", "t", "s", "t", "r", "i", "n", "g", "S", "t", "a", "t", "u",
    "s", "L", "i", "s", "t">>

PrefixVcJwt ==
    <<"d", "a", "t", "a", ":", "a", "p", "p", "l", "i", "c", "a", "t", "i",
    "o", "n", "/", "v", "c", "+", "j", "w", "t", ",">>

PrefixVcLdJwt ==
    <<"d", "a", "t", "a", ":", "a", "p", "p", "l", "i", "c", "a", "t", "i",
    "o", "n", "/", "v", "c", "-", "l", "d", "+", "j", "w", "t", ",">>

PrefixVcPlusLdJwt ==
    <<"d", "a", "t", "a", ":", "a", "p", "p", "l", "i", "c", "a", "t", "i",
    "o", "n", "/", "v", "c", "+", "l", "d", "+", "j", "w", "t", ",">>

PrefixJwt ==
    <<"d", "a", "t", "a", ":", "a", "p", "p", "l", "i", "c", "a", "t", "i",
    "o", "n", "/", "j", "w", "t", ",">>

possiblePrefixes == <<PrefixVcJwt, PrefixVcLdJwt, PrefixVcPlusLdJwt, PrefixJwt>>

\* base64url(gzip(<<178, 1>>)), the DEFLATE stream one stored block
GzipList ==
    <<"H", "4", "s", "I", "A", "A", "A", "A", "A", "A", "A", "A", "_", "w",
    "E", "C", "A", "P", "3", "_", "s", "g", "F", "T", "7", "i", "3", "g", "A",
    "g", "A", "A", "A", "A">>

\* the same with the block type made 3 (invalid)
BadGzipList ==
    <<"H", "4", "s", "I", "A", "A", "A", "A", "A", "A", "A", "A", "_", "w",
    "c", "C", "A", "P", "3", "_", "s", "g", "F", "T", "7", "i", "3", "g", "A",
    "g", "A", "A", "A", "A">>

\* the same GZIP stream cut off after its CRC-32, before its length field
TruncatedGzipList ==
    <<"H", "4", "s", "I", "A", "A", "A", "A", "A", "A", "A", "A", "_", "w",
    "E", "C", "A", "P", "3", "_", "s", "g", "F", "T", "7", "i", "3", "g">>

\* base64url(raw DEFLATE of <<178, 1>>), one stored block
RawDeflateList == <<"A", "Q", "I", "A", "_", "f", "-", "y", "A", "Q">>

\* base64url(<<255, 129>>): neither GZIP nor a DEFLATE stream
PlainList == <<"_", "4", "E">>

\* not Base64URL: a character outside the alphabet
NotBase64List == <<"_", "w", "*", "E">>

VerifiableCredential ==
    <<"V", "e", "r", "i", "f", "i", "a", "b", "l", "e", "C", "r", "e", "d",
    "e", "n", "t", "i", "a", "l">>

SomethingElse ==
    <<"S", "o", "m", "e", "t", "h", "i", "n", "g", "E", "l", "s", "e">>

Revocation == <<"r", "e", "v", "o", "c", "a", "t", "i", "o", "n">>

Suspension == <<"s", "u", "s", "p", "e", "n", "s", "i", "o", "n">>

IssuerDid == <<"d", "i", "d", ":", "x">>

\* JWT payloads: the text (character codes), what JSON.parse makes of it, and
\* the text's Base64URL segment.
\* {"issuer":"did:x","credentialSubject":{"type":"BitstringStatusList","statusPurpose":"suspension","encodedList":"H4sIAAAAAAAA_wECAP3_sgFT7i3gAgAAAA"}}
GoodPayloadText ==
    <<123, 34, 105, 115, 115, 117, 101, 114, 34, 58, 34, 100, 105, 100, 58,
    120, 34, 44, 34, 99, 114, 101, 100, 101, 110, 116, 105, 97, 108, 83, 117,
    98, 106, 101, 99, 116, 34, 58, 123, 34, 116, 121, 112, 101, 34, 58, 34,
    66, 105, 116, 115, 116, 114, 105, 110, 103, 83, 116, 97, 116, 117, 115,
    76, 105, 115, 116, 34, 44, 34, 115, 116, 97, 116, 117, 115, 80, 117, 114,
    112, 111, 115, 101, 34, 58, 34, 115, 117, 115, 112, 101, 110, 115, 105,
    111, 110, 34, 44, 34, 101, 110, 99, 111, 100, 101, 100, 76, 105, 115, 116,
    34, 58, 34, 72, 52, 115, 73, 65, 65, 65, 65, 65, 65, 65, 65, 95, 119, 69,
    67, 65, 80, 51, 95, 115, 103, 70, 84, 55, 105, 51, 103, 65, 103, 65, 65,
    65, 65, 34, 125, 125>>

GoodPayloadValue ==
    JObj([issuer |-> JStr(IssuerDid), credentialSubject |-> JObj([type |->
    JStr(BitstringStatusList), statusPurpose |-> JStr(Suspension), encodedList
    |-> JStr(GzipList)])])

GoodPayloadSegment ==
    <<"e", "y", "J", "p", "c", "3", "N", "1", "Z", "X", "I", "i", "O", "i",
    "J", "k", "a", "W", "Q", "6", "e", "C", "I", "s", "I", "m", "N", "y", "Z",
    "W", "R", "l", "b", "n", "R", "p", "Y", "W", "x", "T", "d", "W", "J", "q",
    "Z", "W", "N", "0", "I", "j", "p", "7", "I", "n", "R", "5", "c", "G", "U",
    "i", "O", "i", "J", "C", "a", "X", "R", "z", "d", "H", "J", "p", "b", "m",
    "d", "T", "d", "G", "F", "0", "d", "X", "N", "M", "a", "X", "N", "0", "I",
    "i", "w", "i", "c", "3", "R", "h", "d", "H", "V", "z", "U", "H", "V", "y",
    "c", "G", "9", "z", "Z", "S", "I", "6", "I", "n", "N", "1", "c", "3", "B",
    "l", "b", "n", "N", "p", "b", "2", "4", "i", "L", "C", "J", "l", "b", "m",
    "N", "v", "Z", "G", "V", "k", "T", "G", "l", "z", "d", "C", "I", "6", "I",
    "k", "g", "0", "c", "0", "l", "B", "Q", "U", "F", "B", "Q", "U", "F", "B",
    "Q", "V", "9", "3", "R", "U", "N", "B", "U", "D", "N", "f", "c", "2", "d",
    "G", "V", "D", "d", "p", "M", "2", "d", "B", "Z", "0", "F", "B", "Q", "U",
    "E", "i", "f", "X", "0">>

\* {"issuer":"did:x"}
NoSubjectPayloadText ==
    <<123, 34, 105, 115, 115, 117, 101, 114, 34, 58, 34, 100, 105, 100, 58,
    120, 34, 125>>

NoSubjectPayloadValue == JObj([issuer |-> JStr(IssuerDid)])

NoSubjectPayloadSegment ==
    <<"e", "y", "J", "p", "c", "3", "N", "1", "Z", "X", "I", "i", "O", "i",
    "J", "k", "a", "W", "Q", "6", "e", "C", "J", "9">>

\* null
NullPayloadText == <<110, 117, 108, 108>>

NullPayloadValue == JNull

NullPayloadSegment == <<"b", "n", "V", "s", "b", "A">>

\* {"credentialSubject":{"type":"BitstringStatusList","statusPurpose":"revocation","encodedList":"AQIA_f-yAQ"},"issuer":"~~>>??"}
UrlSafePayloadText ==
    <<123, 34, 99, 114, 101, 100, 101, 110, 116, 105, 97, 108, 83, 117, 98,
    106, 101, 99, 116, 34, 58, 123, 34, 116, 121, 112, 101, 34, 58, 34, 66,
    105, 116, 115, 116, 114, 105, 110, 103, 83, 116, 97, 116, 117, 115, 76,
    105, 115, 116, 34, 44, 34, 115, 116, 97, 116, 117, 115, 80, 117, 114, 112,
    111, 115, 101, 34, 58, 34, 114, 101, 118, 111, 99, 97, 116, 105, 111, 110,
    34, 44, 34, 101, 110, 99, 111, 100, 101, 100, 76, 105, 115, 116, 34, 58,
    34, 65, 81, 73, 65, 95, 102, 45, 121, 65, 81, 34, 125, 44, 34, 105, 115,
    115, 117, 101, 114, 34, 58, 34, 126, 126, 62, 62, 63, 63, 34, 125>>

UrlSafePayloadValue ==
    JObj([credentialSubject |-> JObj([type |-> JStr(BitstringStatusList),
    statusPurpose |-> JStr(Revocation), encodedList |->
    JStr(RawDeflateList)]), issuer |-> JStr(<<"~", "~", ">", ">", "?",
    "?">>)])

UrlSafePayloadSegment ==
    <<"e", "y", "J", "j", "c", "m", "V", "k", "Z", "W", "5", "0", "a", "W",
    "F", "s", "U", "3", "V", "i", "a", "m", "V", "j", "d", "C", "I", "6", "e",
    "y", "J", "0", "e", "X", "B", "l", "I", "j", "o", "i", "Q", "m", "l", "0",
    "c", "3", "R", "y", "a", "W", "5", "n", "U", "3", "R", "h", "d", "H", "V",
    "z", "T", "G", "l", "z", "d", "C", "I", "s", "I", "n", "N", "0", "Y", "X",
    "R", "1", "c", "1", "B", "1", "c", "n", "B", "v", "c", "2", "U", "i", "O",
    "i", "J", "y", "Z", "X", "Z", "v", "Y", "2", "F", "0", "a", "W", "9", "u",
    "I", "i", "w", "i", "Z", "W", "5", "j", "b", "2", "R", "l", "Z", "E", "x",
    "p", "c", "3", "Q", "i", "O", "i", "J", "B", "U", "U", "l", "B", "X", "2",
    "Y", "t", "e", "U", "F", "R", "I", "n", "0", "s", "I", "m", "l", "z", "c",
    "3", "V", "l", "c", "i", "I", "6", "I", "n", "5", "-", "P", "j", "4", "_",
    "P", "y", "J", "9">>

\* {oops
NotJsonPayloadText == <<123, 111, 111, 112, 115>>

NotJsonPayloadSegment == <<"e", "2", "9", "v", "c", "H", "M">>

HeaderSegment ==
    <<"e", "y", "J", "h", "b", "G", "c", "i", "O", "i", "J", "u", "b", "2",
    "5", "l", "I", "n", "0">>

SignatureSegment == <<"c", "2", "l", "n">>

OddSegment == <<"a", "b", "c", "d", "e">>

\* Segments that are not Base64URL: the header and the signature are free text.
FreeTextSegment == <<"*", "?">>

\* header.payload.signature
Jwt(header, payload, signature) ==
    header \o <<".">> \o payload \o <<".">> \o signature

HeaderSegments == {<<>>, HeaderSegment, FreeTextSegment}

PayloadSegments ==
    {<<>>, GoodPayloadSegment, UrlSafePayloadSegment, NoSubjectPayloadSegment,
     NullPayloadSegment, NotJsonPayloadSegment, OddSegment}

SignatureSegments == {<<>>, SignatureSegment, FreeTextSegment}

\* Tokens of every shape: empty, of one, two, three and four segments, a
\* prefix alone, and a three-segment token behind a second prefix.
ShapedTokens ==
    {<<>>,
     HeaderSegment,
     HeaderSegment \o <<".">> \o GoodPayloadSegment,
     Jwt(HeaderSegment, GoodPayloadSegment, SignatureSegment),
     Jwt(HeaderSegment, GoodPayloadSegment, SignatureSegment) \o <<".">>
         \o SignatureSegment,
     PrefixJwt,
     PrefixVcJwt \o Jwt(HeaderSegment, GoodPayloadSegment, SignatureSegment)}

\* The id of an EnvelopedVerifiableCredential: one of the prefixes or none,
\* then a token.
Ids ==
    {prefix \o token :
        prefix \in {possiblePrefixes[k] : k \in 1..Len(possiblePrefixes)} \cup {<<>>},
        token \in ShapedTokens}
    \cup {PrefixVcLdJwt \o Jwt(header, payload, signature) :
            header \in HeaderSegments, payload \in PayloadSegments,
            signature \in SignatureSegments}

JSONparse(text) ==
    CASE text = GoodPayloadText -> Ok(GoodPayloadValue)
      [] text = UrlSafePayloadText -> Ok(UrlSafePayloadValue)
      [] text = NoSubjectPayloadText -> Ok(NoSubjectPayloadValue)
      [] text = NullPayloadText -> Ok(NullPayloadValue)
      [] OTHER -> Threw("SyntaxError")

(***************************************************************************)
(* part_005 260-362: decodeStatusList, in its two stages.                  *)
(***************************************************************************)
DecimalDigits == <<"0", "1", "2", "3", "4", "5", "6", "7", "8", "9">>

RECURSIVE DecimalChars(_)
DecimalChars(n) ==
    IF n < 10 THEN <<DecimalDigits[n + 1]>>
    ELSE Append(DecimalChars(n \div 10), DecimalDigits[(n % 10) + 1])

\* x.toString() for a string or a non-negative integer.
JsToString(v) ==
    CASE v.kind = "string" -> v.chars
      [] v.kind = "number" -> DecimalChars(v.value)

\* while (base64.length % 4) base64 += '='
padTo4(str) == str \o repeatEquals((4 - (Len(str) % 4)) % 4)

\* Buffer.from(str, 'base64') after the library's alphabet translation: decoding
\* ends at the first '=', characters outside the alphabet are skipped and a
\* single left-over character is dropped.
LenientBase64(str) ==
    LET t == toBase64Alphabet(str)
        stop == IF \E i \in 1..Len(t) : t[i] = "="
                THEN (CHOOSE i \in 1..Len(t) :
                         t[i] = "=" /\ \A j \in 1..(i - 1) : t[j] # "=") - 1
                ELSE Len(t)
        kept == SelectSeq(SubSeq(t, 1, stop), LAMBDA c : c \in Base64Chars)
        whole == IF Len(kept) % 4 = 1 THEN SubSeq(kept, 1, Len(kept) - 1) ELSE kept
    IN  Base64Bytes(whole)

\* base64url.toBuffer starts with encodedList.toString(): a JSON object with a
\* key "toString" has no such method.
HidesToString(v) == v.kind = "object" /\ "toString" \in DOMAIN v.fields

\* Lines 262-297.  primaryRaises: whether base64url.toBuffer raises in this
\* runtime, the case the fallback is written for.  With a value that is not a
\* string the fallback's encodedList.replace throws, and so does
\* encodedList.substring in the handler of line 349: the call throws.
Base64UrlStage(encodedList, primaryRaises) ==
    IF ~(primaryRaises \/ HidesToString(encodedList))
    THEN [kind |-> "bytes", bytes |-> LenientBase64(JsToString(encodedList))]
    ELSE IF encodedList.kind # "string"
    THEN [kind |-> "throw"]
    ELSE LET base64 == padTo4(toBase64Alphabet(encodedList.chars))
             binaryString == atob(base64)
         IN  IF binaryString.ok
             THEN [kind |-> "bytes", bytes |-> binaryString.value]
             ELSE [kind |-> "error",
                   error |-> createError("BASE64_DECODE_ERROR",
                       Text("Failed to decode Base64URL data"),
                       Fmt("The encoded list could not be decoded from Base64URL format. %",
                           <<binaryString.message>>),
                       Undefined)]

\* A variant of line 308 that never takes the GZIP branch.
HasGzipMagic_Never(buffer) == FALSE

\* compressed[0] === 0x1f && compressed[1] === 0x8b
HasGzipMagic(buffer) ==
    Len(buffer) >= 2 /\ buffer[1] = 31 /\ buffer[2] = 139

\* Lines 304-348.  incompleteThrows: whether this pako throws on a stream that
\* ends early (else inflate returns undefined).  throwsErrorObject: whether
\* what inflate throws is an Error with a message (else it is the message
\* itself, a string, and line 317 writes 'Unknown error').
DecompressStage(buffer, incompleteThrows, throwsErrorObject) ==
    IF HasGzipMagic(buffer)
    THEN LET r == inflateGzip(buffer)
             failed(message) ==
                 [kind |-> "error",
                  error |-> createError("GZIP_DECODE_ERROR",
                      Text("Failed to decompress GZIP data"),
                      Fmt("The GZIP compressed data could not be decompressed. %",
                          <<IF throwsErrorObject THEN message
                            ELSE "Unknown error">>),
                      Undefined)]
         IN  CASE r.status = "end" -> [kind |-> "data", data |-> Some(r.data)]
               [] r.status = "error" -> failed(r.message)
               [] r.status = "incomplete" ->
                    IF incompleteThrows THEN failed("buffer error")
                    ELSE [kind |-> "data", data |-> Undefined]
    ELSE LET r == inflateRaw(buffer)
         IN  CASE r.status = "end" -> [kind |-> "data", data |-> Some(r.data)]
               [] r.status = "error" -> [kind |-> "data", data |-> Some(buffer)]
               [] r.status = "incomplete" ->
                    IF incompleteThrows
                    THEN [kind |-> "data", data |-> Some(buffer)]
                    ELSE [kind |-> "data", data |-> Undefined]

decodeStatusList(encodedList, primaryRaises, incompleteThrows, throwsErrorObject) ==
    LET buffer == Base64UrlStage(encodedList, primaryRaises)
    IN  IF buffer.kind # "bytes" THEN buffer
        ELSE DecompressStage(buffer.bytes, incompleteThrows, throwsErrorObject)

(***************************************************************************)
(* part_005 462-608: decodeEnvelopedCredential.                            *)
(***************************************************************************)
Failure(err) == [kind |-> "error", error |-> err]

UnknownEnvelopeError ==
    Failure(createError("UNKNOWN_ERROR", Text("Failed to decode enveloped credential"),
                        Text("TypeError"), Undefined))

JwtParseError(message, details) ==
    Failure(createError("JWT_PARSE_ERROR", Text(message), details, Undefined))

\* A variant of lines 489-495 without the break: prefixes are removed as long
\* as one matches.
RECURSIVE StripPrefix_Repeatedly(_, _)
StripPrefix_Repeatedly(jwtToken, k) ==
    IF k > Len(possiblePrefixes) THEN Undefined
    ELSE IF startsWith(jwtToken, possiblePrefixes[k])
    THEN LET rest == substring(jwtToken, Len(possiblePrefixes[k]))
             again == StripPrefix_Repeatedly(rest, 1)
         IN  IF again = Undefined THEN Some(rest) ELSE again
    ELSE StripPrefix_Repeatedly(jwtToken, k + 1)

\* Lines 489-495: the token with the first matching prefix removed, if any.
RECURSIVE StripPrefix(_, _)
StripPrefix(jwtToken, k) ==
    IF k > Len(possiblePrefixes) THEN Undefined
    ELSE IF startsWith(jwtToken, possiblePrefixes[k])
    THEN Some(substring(jwtToken, Len(possiblePrefixes[k])))
    ELSE StripPrefix(jwtToken, k + 1)

\* A variant of lines 549-595 that decodes the padded payload as it is.
DecodePayload_NoTranslation(payload) ==
    LET paddedPayload == payload \o repeatEquals((4 - (Len(payload) % 4)) % 4)
        decodedPayload == atob(paddedPayload)
    IN  IF ~decodedPayload.ok
        THEN Failure(createError("BASE64_DECODE_ERROR",
                 Text("Failed to decode JWT payload"),
                 Fmt("Could not decode the JWT payload from Base64. %",
                     <<decodedPayload.message>>),
                 Undefined))
        ELSE LET credentialData == JSONparse(decodedPayload.value)
             IN  IF ~credentialData.ok
                 THEN Failure(createError("INVALID_JSON",
                          Text("Invalid JWT payload JSON"),
                          Fmt("The JWT payload is not valid JSON. %",
                              <<credentialData.message>>),
                          Undefined))
                 ELSE IF ThrowsOnRead(Some(credentialData.value))
                 THEN UnknownEnvelopeError
                 ELSE IF Falsy(Get(credentialData.value, "credentialSubject"))
                 THEN Failure(createError("INVALID_CREDENTIAL_FORMAT",
                          Text("Invalid credential in JWT"),
                          Text("The decoded JWT does not contain a valid StatusListCredential."),
                          Undefined))
                 ELSE [kind |-> "credential", credential |-> credentialData.value]

\* Lines 549-595, from the payload segment on.
\* A variant of lines 550-595 without the credentialSubject check of line 583.
DecodePayload_NoSubjectCheck(payload) ==
    LET paddedPayload == payload \o repeatEquals((4 - (Len(payload) % 4)) % 4)
        decodedPayload == atob(toBase64Alphabet(paddedPayload))
    IN  IF ~decodedPayload.ok
        THEN Failure(createError("BASE64_DECODE_ERROR",
                 Text("Failed to decode JWT payload"),
                 Fmt("Could not decode the JWT payload from Base64. %",
                     <<decodedPayload.message>>),
                 Undefined))
        ELSE LET credentialData == JSONparse(decodedPayload.value)
             IN  IF ~credentialData.ok
                 THEN Failure(createError("INVALID_JSON",
                          Text("Invalid JWT payload JSON"),
                          Fmt("The JWT payload is not valid JSON. %",
                              <<credentialData.message>>),
                          Undefined))
                 ELSE IF ThrowsOnRead(Some(credentialData.value))
                 THEN UnknownEnvelopeError
                 ELSE [kind |-> "credential", credential |-> credentialData.value]

DecodePayload(payload) ==
    LET paddedPayload == payload \o repeatEquals((4 - (Len(payload) % 4)) % 4)
        decodedPayload == atob(toBase64Alphabet(paddedPayload))
    IN  IF ~decodedPayload.ok
        THEN Failure(createError("BASE64_DECODE_ERROR",
                 Text("Failed to decode JWT payload"),
                 Fmt("Could not decode the JWT payload from Base64. %",
                     <<decodedPayload.message>>),
                 Undefined))
        ELSE LET credentialData == JSONparse(decodedPayload.value)
             IN  IF ~credentialData.ok
                 THEN Failure(createError("INVALID_JSON",
                          Text("Invalid JWT payload JSON"),
                          Fmt("The JWT payload is not valid JSON. %",
                              <<credentialData.message>>),
                          Undefined))
                 ELSE IF ThrowsOnRead(Some(credentialData.value))
                 THEN UnknownEnvelopeError
                 ELSE IF Falsy(Get(credentialData.value, "credentialSubject"))
                 THEN Failure(createError("INVALID_CREDENTIAL_FORMAT",
                          Text("Invalid credential in JWT"),
                          Text("The decoded JWT does not contain a valid StatusListCredential."),
                          Undefined))
                 ELSE [kind |-> "credential", credential |-> credentialData.value]

\* A variant of lines 462-608 that also decodes the header segment.
decodeEnvelopedCredential_DecodesHeader(envelopedCred) ==
    IF ThrowsOnRead(envelopedCred) THEN UnknownEnvelopeError
    ELSE LET id == Get(The(envelopedCred), "id")
         IN  IF Falsy(id)
             THEN JwtParseError("Missing JWT token",
                      Text("The EnvelopedVerifiableCredential does not contain an id field with the JWT."))
             ELSE IF The(id).kind # "string"
             THEN UnknownEnvelopeError
             ELSE LET stripped == StripPrefix(The(id).chars, 1)
                  IN  IF stripped = Undefined
                      THEN JwtParseError("Invalid JWT format",
                               Fmt("The id field does not contain a valid JWT token with a recognized prefix. Got: %...",
                                   <<SubSeq(The(id).chars, 1,
                                            IF Len(The(id).chars) < 50
                                            THEN Len(The(id).chars) ELSE 50)>>))
                      ELSE IF The(stripped) = <<>>
                      THEN JwtParseError("Empty JWT token",
                               Text("The JWT token is empty after removing the data URL prefix."))
                      ELSE LET parts == split(The(stripped), ".")
                           IN  IF Len(parts) # 3
                               THEN JwtParseError("Invalid JWT structure",
                                        Fmt("JWT must have 3 parts (header.payload.signature), but found % parts.",
                                            <<Len(parts)>>))
                               ELSE IF parts[2] = <<>>
                               THEN JwtParseError("Empty JWT payload",
                                        Text("The JWT payload section is empty."))
                               ELSE IF ~atob(toBase64Alphabet(padTo4(parts[1]))).ok
                               THEN JwtParseError("Invalid JWT header",
                                        Text("The JWT header is not Base64URL."))
                               ELSE DecodePayload(parts[2])

\* envelopedCred: an optional JSON value.
decodeEnvelopedCredential(envelopedCred) ==
    IF ThrowsOnRead(envelopedCred) THEN UnknownEnvelopeError
    ELSE LET id == Get(The(envelopedCred), "id")
         IN  IF Falsy(id)
             THEN JwtParseError("Missing JWT token",
                      Text("The EnvelopedVerifiableCredential does not contain an id field with the JWT."))
             ELSE IF The(id).kind # "string"
             THEN UnknownEnvelopeError
             ELSE LET stripped == StripPrefix(The(id).chars, 1)
                  IN  IF stripped = Undefined
                      THEN JwtParseError("Invalid JWT format",
                               Fmt("The id field does not contain a valid JWT token with a recognized prefix. Got: %...",
                                   <<SubSeq(The(id).chars, 1,
                                            IF Len(The(id).chars) < 50
                                            THEN Len(The(id).chars) ELSE 50)>>))
                      ELSE IF The(stripped) = <<>>
                      THEN JwtParseError("Empty JWT token",
                               Text("The JWT token is empty after removing the data URL prefix."))
                      ELSE LET parts == split(The(stripped), ".")
                           IN  IF Len(parts) # 3
                               THEN JwtParseError("Invalid JWT structure",
                                        Fmt("JWT must have 3 parts (header.payload.signature), but found % parts.",
                                            <<Len(parts)>>))
                               ELSE IF parts[2] = <<>>
                               THEN JwtParseError("Empty JWT payload",
                                        Text("The JWT payload section is empty."))
                               ELSE DecodePayload(parts[2])

NoAnswer == [kind |-> "none"]

(***************************************************************************)
(* The documents of the model.                                             *)
(***************************************************************************)
\* The documents response.json() can resolve to.
\* embedded, GZIP list
DocGzip ==
    JObj([type |-> JArr(<<JStr(VerifiableCredential)>>), issuer |->
    JStr(IssuerDid), credentialSubject |-> JObj([type |->
    JStr(BitstringStatusList), statusPurpose |-> JStr(Revocation), encodedList
    |-> JStr(GzipList)])])

\* embedded, type a string, statusPurpose suspension
DocSuspension ==
    JObj([type |-> JStr(VerifiableCredential), issuer |-> JStr(IssuerDid),
    credentialSubject |-> JObj([type |-> JStr(BitstringStatusList),
    statusPurpose |-> JStr(Suspension), encodedList |-> JStr(GzipList)])])

\* embedded, GZIP magic but a corrupt stream
DocBadGzip ==
    JObj([type |-> JArr(<<JStr(VerifiableCredential)>>), issuer |->
    JStr(IssuerDid), credentialSubject |-> JObj([type |->
    JStr(BitstringStatusList), statusPurpose |-> JStr(Revocation), encodedList
    |-> JStr(BadGzipList)])])

\* embedded, GZIP magic and a stream that ends early
DocTruncatedGzip ==
    JObj([type |-> JArr(<<JStr(VerifiableCredential)>>), issuer |->
    JStr(IssuerDid), credentialSubject |-> JObj([type |->
    JStr(BitstringStatusList), statusPurpose |-> JStr(Revocation), encodedList
    |-> JStr(TruncatedGzipList)])])

\* embedded, raw DEFLATE list
DocRawDeflate ==
    JObj([type |-> JArr(<<JStr(VerifiableCredential)>>), issuer |->
    JStr(IssuerDid), credentialSubject |-> JObj([type |->
    JStr(BitstringStatusList), statusPurpose |-> JStr(Revocation), encodedList
    |-> JStr(RawDeflateList)])])

\* embedded, uncompressed list
DocPlain ==
    JObj([type |-> JArr(<<JStr(VerifiableCredential)>>), issuer |->
    JStr(IssuerDid), credentialSubject |-> JObj([type |->
    JStr(BitstringStatusList), statusPurpose |-> JStr(Revocation), encodedList
    |-> JStr(PlainList)])])

\* embedded, encodedList not Base64URL
DocNotBase64 ==
    JObj([type |-> JArr(<<JStr(VerifiableCredential)>>), issuer |->
    JStr(IssuerDid), credentialSubject |-> JObj([type |->
    JStr(BitstringStatusList), statusPurpose |-> JStr(Revocation), encodedList
    |-> JStr(NotBase64List)])])

\* embedded, encodedList a number
DocNumberList ==
    JObj([type |-> JArr(<<JStr(VerifiableCredential)>>), issuer |->
    JStr(IssuerDid), credentialSubject |-> JObj([type |->
    JStr(BitstringStatusList), statusPurpose |-> JStr(Revocation), encodedList
    |-> JNum(5)])])

\* embedded, encodedList an object with a key toString
DocObjectList ==
    JObj([type |-> JArr(<<JStr(VerifiableCredential)>>), issuer |->
    JStr(IssuerDid), credentialSubject |-> JObj([type |->
    JStr(BitstringStatusList), statusPurpose |-> JStr(Revocation), encodedList
    |-> JObj([toString |-> JNum(0)])])])

\* embedded, type an empty array
DocEmptyArrayType ==
    JObj([type |-> JArr(<<>>), issuer |-> JStr(IssuerDid), credentialSubject
    |-> JObj([type |-> JStr(BitstringStatusList), statusPurpose |->
    JStr(Revocation), encodedList |-> JStr(GzipList)])])

\* embedded, encodedList empty
DocEmptyList ==
    JObj([type |-> JArr(<<JStr(VerifiableCredential)>>), issuer |->
    JStr(IssuerDid), credentialSubject |-> JObj([type |->
    JStr(BitstringStatusList), statusPurpose |-> JStr(Revocation), encodedList
    |-> JStr(<<>>)])])

\* embedded, no encodedList
DocNoList ==
    JObj([type |-> JArr(<<JStr(VerifiableCredential)>>), issuer |->
    JStr(IssuerDid), credentialSubject |-> JObj([type |->
    JStr(BitstringStatusList), statusPurpose |-> JStr(Revocation)])])

\* embedded, credentialSubject.type SomethingElse
DocWrongSubjectType ==
    JObj([type |-> JArr(<<JStr(VerifiableCredential)>>), issuer |->
    JStr(IssuerDid), credentialSubject |-> JObj([type |-> JStr(SomethingElse),
    encodedList |-> JStr(GzipList)])])

\* embedded, credentialSubject a number
DocNumberSubject ==
    JObj([type |-> JArr(<<JStr(VerifiableCredential)>>), issuer |->
    JStr(IssuerDid), credentialSubject |-> JNum(5)])

\* embedded, credentialSubject null
DocNullSubject ==
    JObj([type |-> JArr(<<JStr(VerifiableCredential)>>), credentialSubject |->
    JNull])

\* embedded, no credentialSubject
DocNoSubject ==
    JObj([type |-> JArr(<<JStr(VerifiableCredential)>>), issuer |->
    JStr(IssuerDid)])

\* no type, the rest well formed
DocNoType ==
    JObj([credentialSubject |-> JObj([type |-> JStr(BitstringStatusList),
    statusPurpose |-> JStr(Revocation), encodedList |-> JStr(GzipList)])])

\* type the empty string
DocEmptyType ==
    JObj([type |-> JStr(<<>>), issuer |-> JStr(IssuerDid), credentialSubject
    |-> JObj([type |-> JStr(BitstringStatusList), statusPurpose |->
    JStr(Revocation), encodedList |-> JStr(GzipList)])])

\* type a number
DocNumberType ==
    JObj([type |-> JNum(7), issuer |-> JStr(IssuerDid), credentialSubject |->
    JObj([type |-> JStr(BitstringStatusList), statusPurpose |->
    JStr(Revocation), encodedList |-> JStr(GzipList)])])

\* type an object
DocObjectType ==
    JObj([type |-> JObj(<<>>), issuer |-> JStr(IssuerDid), credentialSubject
    |-> JObj([type |-> JStr(BitstringStatusList), statusPurpose |->
    JStr(Revocation), encodedList |-> JStr(GzipList)])])

\* the document null
DocNull == JNull

\* the document a number
DocNumber == JNum(5)

\* enveloped, no id
EnvNoId == JObj([type |-> JStr(EnvelopedVerifiableCredential)])

\* enveloped, id a number
EnvNumberId ==
    JObj([type |-> JStr(EnvelopedVerifiableCredential), id |-> JNum(5)])

\* An EnvelopedVerifiableCredential with the given id.
Enveloped(id) == JObj([type |-> JStr(EnvelopedVerifiableCredential), id |-> id])

EnvelopedDocuments ==
    {Enveloped(JStr(id)) : id \in Ids} \cup {EnvNoId, EnvNumberId}

EmbeddedDocuments ==
    {DocGzip, DocSuspension, DocBadGzip, DocTruncatedGzip, DocRawDeflate, DocPlain,
    DocNotBase64, DocNumberList, DocObjectList, DocEmptyList, DocNoList,
    DocWrongSubjectType, DocNumberSubject, DocNullSubject, DocNoSubject,
    DocNoType, DocEmptyType, DocEmptyArrayType, DocNumberType, DocObjectType,
    DocNull, DocNumber}

\* The document without its type field.
WithoutType(doc) ==
    JObj([key \in DOMAIN doc.fields \ {"type"} |-> doc.fields[key]])

UntypedDocuments ==
    {WithoutType(doc) :
        doc \in {d \in EmbeddedDocuments \cup EnvelopedDocuments : d.kind = "object"}}

Documents == EmbeddedDocuments \cup EnvelopedDocuments \cup UntypedDocuments


(***************************************************************************)
(* Spec: fetchStatusList (part_005 18-258), one invocation after another.  *)
(* The function suspends at fetch(url) and at response.json(); its stages  *)
(* are the steps of the model, in program order.                           *)
(***************************************************************************)
\* Response.ok: the status is in the range 200-299.
ResponseOk(status) == 200 <= status /\ status <= 299

Statuses == {0, 200, 204, 301, 401, 403, 404, 418, 500, 502, 503, 504}

\* What a failed fetch(url) throws: its class and whether its message
\* contains 'CORS'.  A TypeError with such a message is how this code
\* recognises a cross-origin rejection.
FetchErrors ==
    {[class |-> c, mentionsCORS |-> m] :
        c \in {"TypeError", "Error", "notAnError"}, m \in BOOLEAN}

Malformed == [kind |-> "malformed"]

FailureResult(err) ==
    [success |-> FALSE, data |-> Undefined, error |-> Some(err)]

SuccessResult(data) ==
    [success |-> TRUE, data |-> Some(data), error |-> Undefined]

\* Lines 245-257: the handler of the outer try.
UnknownError ==
    createError("UNKNOWN_ERROR", Text("An unexpected error occurred"),
                Text("TypeError"), Undefined)

\* A variant of lines 29-30 without the instanceof test.
FetchError_MessageOnly(e) ==
    IF e.mentionsCORS
    THEN createError("CORS_ERROR", Text("Cross-origin request blocked"),
                     Text("The server doesn't allow requests from this domain."),
                     Undefined)
    ELSE createError("NETWORK_ERROR", Text("Unable to connect to the server"),
                     IF e.class = "notAnError"
                     THEN Text("Network request failed")
                     ELSE Text("fetchError.message"),
                     Undefined)

\* Lines 24-48.
FetchError(e) ==
    IF e.class = "TypeError" /\ e.mentionsCORS
    THEN createError("CORS_ERROR", Text("Cross-origin request blocked"),
                     Text("The server doesn't allow requests from this domain."),
                     Undefined)
    ELSE createError("NETWORK_ERROR", Text("Unable to connect to the server"),
                     IF e.class = "notAnError"
                     THEN Text("Network request failed")
                     ELSE Text("fetchError.message"),
                     Undefined)

\* A variant of lines 52-117 that keeps only the default branch of the switch.
HttpError_DefaultOnly(status) ==
    createError("SERVER_ERROR", Fmt("HTTP % error", <<status>>),
                Text("response.statusText"), Some(status))

\* Lines 52-116: the switch on response.status.
HttpError(status) ==
    CASE status = 404 ->
           createError("NOT_FOUND", Text("Credential not found"),
                       Text("The URL returned a 404 Not Found error."), Some(404))
      [] status = 401 ->
           createError("UNAUTHORIZED", Text("Authentication required"),
                       Text("The server requires authentication to access this credential."),
                       Some(401))
      [] status = 403 ->
           createError("FORBIDDEN", Text("Access denied"),
                       Text("You don't have permission to access this credential."),
                       Some(403))
      [] status = 500 ->
           createError("SERVER_ERROR", Text("Server error"),
                       Text("The credential server encountered an internal error."),
                       Some(500))
      [] status = 502 ->
           createError("BAD_GATEWAY", Text("Bad gateway"),
                       Text("The server received an invalid response from an upstream server."),
                       Some(502))
      [] status = 503 ->
           createError("SERVICE_UNAVAILABLE", Text("Service unavailable"),
                       Text("The credential service is temporarily unavailable."),
                       Some(503))
      [] OTHER ->
           createError("SERVER_ERROR", Fmt("HTTP % error", <<status>>),
                       Text("response.statusText"), Some(status))

Return(r) ==
    /\ result' = Some(r)
    /\ pc' = "done"

\* part_004 12-19 and part_003 12: the state of the page when it is mounted.
InitPage ==
    /\ loading = FALSE
    /\ decoded = Undefined
    /\ error = Undefined
    /\ currentUrl = <<>>
    /\ autoCheckResult = Undefined
    /\ url = <<>>
    /\ calls = <<>>
    /\ lastEvent = "none"

InitPipeline ==
    /\ pc = "idle"
    /\ stages = <<>>
    /\ fetchError = Undefined
    /\ response = Undefined
    /\ credential = Undefined
    /\ statusListCredential = Undefined
    /\ credentialType = Undefined
    /\ compressed = Undefined
    /\ result = Undefined
    /\ thrown = {}

Init ==
    /\ InitPipeline
    /\ InitPage
    /\ decodedBits = <<>>
    /\ statusPurpose = "revocation"
    /\ query = [op |-> "none"]
    /\ answer = NoAnswer

\* The caller invokes fetchStatusList(url): line 23 calls fetch(url).
StartFetch ==
    /\ pc \in {"idle", "done"}
    /\ pc' = "fetch"
    /\ stages' = <<"fetch">>
    /\ fetchError' = Undefined
    /\ response' = Undefined
    /\ credential' = Undefined
    /\ statusListCredential' = Undefined
    /\ credentialType' = Undefined
    /\ compressed' = Undefined
    /\ result' = Undefined
    /\ thrown' = {}
    /\ UNCHANGED <<bitVars, homeVars>>

\* fetch(url) rejects: lines 24-48.
FetchRejects ==
    /\ pc = "fetch"
    /\ \E e \in FetchErrors :
          /\ fetchError' = Some(e)
          /\ Return(FailureResult(FetchError(e)))
    /\ UNCHANGED <<stages, response, credential, statusListCredential,
                   credentialType, compressed, thrown, bitVars, homeVars>>

\* fetch(url) resolves with a response.
FetchResolves ==
    /\ pc = "fetch"
    /\ \E status \in Statuses :
          response' = Some([ok |-> ResponseOk(status), status |-> status])
    /\ pc' = "status"
    /\ UNCHANGED <<stages, fetchError, credential, statusListCredential, credentialType,
                   compressed, result, thrown, bitVars, homeVars>>

\* A variant of lines 50-118 that loses the returns of the switch and goes on
\* to response.json().
CheckStatus_NoReturn ==
    /\ pc = "status"
    /\ stages' = Append(stages, "status")
    /\ pc' = "json"
    /\ UNCHANGED <<fetchError, response, credential, statusListCredential,
                   credentialType, compressed, result, thrown, bitVars, homeVars>>

\* A variant of lines 50-118 that fetches again on a gateway error.
CheckStatus_Retry ==
    /\ pc = "status"
    /\ IF ~The(response).ok
       THEN IF The(response).status \in {502, 503, 504} /\ Len(stages) < 4
            THEN /\ stages' = stages \o <<"status", "fetch">>
                 /\ pc' = "fetch"
                 /\ UNCHANGED result
            ELSE /\ stages' = Append(stages, "status")
                 /\ Return(FailureResult(HttpError(The(response).status)))
       ELSE /\ stages' = Append(stages, "status")
            /\ pc' = "json"
            /\ UNCHANGED result
    /\ UNCHANGED <<fetchError, response, credential, statusListCredential,
                   credentialType, compressed, thrown, bitVars, homeVars>>

\* Lines 50-118, and line 123 calls response.json() when the status is ok.
CheckStatus ==
    /\ pc = "status"
    /\ stages' = Append(stages, "status")
    /\ IF ~The(response).ok
       THEN Return(FailureResult(HttpError(The(response).status)))
       ELSE pc' = "json" /\ UNCHANGED result
    /\ UNCHANGED <<fetchError, response, credential, statusListCredential,
                   credentialType, compressed, thrown, bitVars, homeVars>>

\* response.json() settles: lines 121-135.
JsonSettles ==
    /\ pc = "json"
    /\ stages' = Append(stages, "json")
    /\ \E body \in Documents \cup {Malformed} :
          IF body = Malformed
          THEN /\ Return(FailureResult(createError("INVALID_JSON",
                          Text("Invalid JSON response"),
                          Text("The server response is not valid JSON."),
                          Undefined)))
               /\ UNCHANGED credential
          ELSE /\ credential' = Some(body)
               /\ pc' = "type"
               /\ UNCHANGED result
    /\ UNCHANGED <<fetchError, response, statusListCredential, credentialType,
                   compressed, thrown, bitVars, homeVars>>

\* A variant of lines 137-149 that takes a document without type for an
\* embedded credential.
CheckType_DefaultsToEmbedded ==
    /\ pc = "type"
    /\ stages' = Append(stages, "type")
    /\ IF ThrowsOnRead(credential)
       THEN /\ Return(FailureResult(UnknownError))
            /\ UNCHANGED <<statusListCredential, credentialType>>
       ELSE IF Falsy(Get(The(credential), "type"))
       THEN /\ statusListCredential' = credential
            /\ credentialType' = Some("embedded")
            /\ pc' = "validate"
            /\ UNCHANGED result
       ELSE /\ pc' = "unwrap"
            /\ UNCHANGED <<result, statusListCredential, credentialType>>
    /\ UNCHANGED <<fetchError, response, credential, compressed, thrown, bitVars, homeVars>>

\* Lines 137-149; reading .type of null throws into the handler of line 245.
CheckType ==
    /\ pc = "type"
    /\ stages' = Append(stages, "type")
    /\ IF ThrowsOnRead(credential)
       THEN Return(FailureResult(UnknownError))
       ELSE IF Falsy(Get(The(credential), "type"))
       THEN Return(FailureResult(createError("MISSING_CREDENTIAL_TYPE",
                       Text("Invalid credential format"),
                       Text("The credential is missing the required \"type\" field."),
                       Undefined)))
       ELSE pc' = "unwrap" /\ UNCHANGED result
    /\ UNCHANGED <<fetchError, response, credential, statusListCredential,
                   credentialType, compressed, thrown, bitVars, homeVars>>

isEnveloped == IsString(Get(The(credential), "type"), EnvelopedVerifiableCredential)

\* A variant of lines 151-180 in which every document that is not enveloped
\* is taken for an embedded credential.
Unwrap_AlwaysEmbedded ==
    /\ pc = "unwrap"
    /\ stages' = Append(stages, "unwrap")
    /\ IF isEnveloped
       THEN LET decodeResult == decodeEnvelopedCredential(credential)
            IN  IF decodeResult.kind = "error"
                THEN /\ Return(FailureResult(decodeResult.error))
                     /\ UNCHANGED <<statusListCredential, credentialType>>
                ELSE /\ statusListCredential' = Some(decodeResult.credential)
                     /\ credentialType' = Some("enveloped")
                     /\ pc' = "validate"
                     /\ UNCHANGED result
       ELSE /\ statusListCredential' = credential
            /\ credentialType' = Some("embedded")
            /\ pc' = "validate"
            /\ UNCHANGED result
    /\ UNCHANGED <<fetchError, response, credential, compressed, thrown, bitVars, homeVars>>

\* Lines 151-180.
Unwrap ==
    /\ pc = "unwrap"
    /\ stages' = Append(stages, "unwrap")
    /\ IF isEnveloped
       THEN LET decodeResult == decodeEnvelopedCredential(credential)
            IN  IF decodeResult.kind = "error"
                THEN /\ Return(FailureResult(decodeResult.error))
                     /\ UNCHANGED <<statusListCredential, credentialType>>
                ELSE /\ statusListCredential' = Some(decodeResult.credential)
                     /\ credentialType' = Some("enveloped")
                     /\ pc' = "validate"
                     /\ UNCHANGED result
       ELSE IF The(Get(The(credential), "type")).kind \in {"array", "string"}
       THEN /\ statusListCredential' = credential
            /\ credentialType' = Some("embedded")
            /\ pc' = "validate"
            /\ UNCHANGED result
       ELSE /\ Return(FailureResult(createError("UNSUPPORTED_CREDENTIAL_TYPE",
                         Text("Unsupported credential type"),
                         Fmt("Credential type % is not supported.",
                             <<The(Get(The(credential), "type"))>>),
                         Undefined)))
            /\ UNCHANGED <<statusListCredential, credentialType>>
    /\ UNCHANGED <<fetchError, response, credential, compressed, thrown, bitVars, homeVars>>

bitstringList == Get(The(statusListCredential), "credentialSubject")

\* A variant of lines 182-222 that looks for encodedList before it looks at
\* credentialSubject.type.
Validate_ListBeforeType ==
    /\ pc = "validate"
    /\ stages' = Append(stages, "validate")
    /\ IF Falsy(bitstringList)
       THEN Return(FailureResult(createError("MISSING_BITSTRING_LIST",
                       Text("Missing BitstringStatusList"),
                       Text("The credential does not contain a credentialSubject field."),
                       Undefined)))
       ELSE IF Falsy(Get(The(bitstringList), "encodedList"))
       THEN Return(FailureResult(createError("INVALID_CREDENTIAL_FORMAT",
                       Text("Missing encoded list"),
                       Text("The BitstringStatusList does not contain an encodedList field."),
                       Undefined)))
       ELSE IF ~IsString(Get(The(bitstringList), "type"), BitstringStatusList)
       THEN Return(FailureResult(createError("INVALID_CREDENTIAL_FORMAT",
                       Text("Invalid BitstringStatusList"),
                       Fmt("Expected type BitstringStatusList but got %.",
                           <<Get(The(bitstringList), "type")>>),
                       Undefined)))
       ELSE pc' = "base64" /\ UNCHANGED result
    /\ UNCHANGED <<fetchError, response, credential, statusListCredential,
                   credentialType, compressed, thrown, bitVars, homeVars>>

\* A variant of lines 182-222 without the check of credentialSubject.type.
Validate_NoTypeCheck ==
    /\ pc = "validate"
    /\ stages' = Append(stages, "validate")
    /\ IF Falsy(bitstringList)
       THEN Return(FailureResult(createError("MISSING_BITSTRING_LIST",
                       Text("Missing BitstringStatusList"),
                       Text("The credential does not contain a credentialSubject field."),
                       Undefined)))
       ELSE IF Falsy(Get(The(bitstringList), "encodedList"))
       THEN Return(FailureResult(createError("INVALID_CREDENTIAL_FORMAT",
                       Text("Missing encoded list"),
                       Text("The BitstringStatusList does not contain an encodedList field."),
                       Undefined)))
       ELSE pc' = "base64" /\ UNCHANGED result
    /\ UNCHANGED <<fetchError, response, credential, statusListCredential,
                   credentialType, compressed, thrown, bitVars, homeVars>>

\* Lines 182-222.
Validate ==
    /\ pc = "validate"
    /\ stages' = Append(stages, "validate")
    /\ IF Falsy(bitstringList)
       THEN Return(FailureResult(createError("MISSING_BITSTRING_LIST",
                       Text("Missing BitstringStatusList"),
                       Text("The credential does not contain a credentialSubject field."),
                       Undefined)))
       ELSE IF ~IsString(Get(The(bitstringList), "type"), BitstringStatusList)
       THEN Return(FailureResult(createError("INVALID_CREDENTIAL_FORMAT",
                       Text("Invalid BitstringStatusList"),
                       Fmt("Expected type BitstringStatusList but got %.",
                           <<Get(The(bitstringList), "type")>>),
                       Undefined)))
       ELSE IF Falsy(Get(The(bitstringList), "encodedList"))
       THEN Return(FailureResult(createError("INVALID_CREDENTIAL_FORMAT",
                       Text("Missing encoded list"),
                       Text("The BitstringStatusList does not contain an encodedList field."),
                       Undefined)))
       ELSE pc' = "base64" /\ UNCHANGED result
    /\ UNCHANGED <<fetchError, response, credential, statusListCredential,
                   credentialType, compressed, thrown, bitVars, homeVars>>

\* Line 225 calls decodeStatusList: its lines 262-297.  When the call throws,
\* the handler of line 245 returns UNKNOWN_ERROR.
Base64Decode ==
    /\ pc = "base64"
    /\ stages' = Append(stages, "base64")
    /\ \E primaryRaises \in BOOLEAN :
          LET r == Base64UrlStage(The(Get(The(bitstringList), "encodedList")),
                                  primaryRaises)
          IN  CASE r.kind = "bytes" ->
                     /\ compressed' = Some(r.bytes)
                     /\ pc' = "decompress"
                     /\ UNCHANGED <<result, thrown>>
                [] r.kind = "error" ->
                     /\ Return(FailureResult(r.error))
                     /\ UNCHANGED <<compressed, thrown>>
                [] r.kind = "throw" ->
                     /\ thrown' = thrown \cup {"decodeStatusList"}
                     /\ Return(FailureResult(UnknownError))
                     /\ UNCHANGED compressed
    /\ UNCHANGED <<fetchError, response, credential, statusListCredential,
                   credentialType, bitVars, homeVars>>

\* A variant of lines 231-238 that counts bytes into totalBits.
DecodedStatusList_TotalBytes(bits) ==
    [credential |-> The(statusListCredential),
     bitstringList |-> The(bitstringList),
     decodedBits |-> bits,
     totalBits |-> Len(bits),
     credentialType |-> The(credentialType),
     originalEnvelopedCredential |-> IF isEnveloped THEN credential ELSE Undefined]

\* A variant of lines 231-238 that keeps the fetched document as credential.
DecodedStatusList_FetchedDocument(bits) ==
    [credential |-> The(credential),
     bitstringList |-> The(bitstringList),
     decodedBits |-> bits,
     totalBits |-> Len(bits) * 8,
     credentialType |-> The(credentialType),
     originalEnvelopedCredential |-> IF isEnveloped THEN credential ELSE Undefined]

\* Lines 231-238.
DecodedStatusList(bits) ==
    [credential |-> The(statusListCredential),
     bitstringList |-> The(bitstringList),
     decodedBits |-> bits,
     totalBits |-> Len(bits) * 8,
     credentialType |-> The(credentialType),
     originalEnvelopedCredential |-> IF isEnveloped THEN credential ELSE Undefined]

\* Lines 610-622: info of a DecodedStatusList; a field the document lacks is
\* undefined.
formatCredentialInfo(info) ==
    [credentialType |-> info.credentialType,
     id |-> Get(info.bitstringList, "id"),
     statusPurpose |-> Get(info.bitstringList, "statusPurpose"),
     totalBits |-> info.totalBits,
     validFrom |-> Get(info.bitstringList, "validFrom"),
     validUntil |-> Get(info.bitstringList, "validUntil"),
     issuer |-> Get(info.credential, "issuer")]

\* decodeStatusList's lines 304-348, then lines 226-243.  Without data,
\* decodedBits.length throws into the handler of line 245.
Decompress ==
    /\ pc = "decompress"
    /\ stages' = Append(stages, "decompress")
    /\ \E incompleteThrows \in BOOLEAN, throwsErrorObject \in BOOLEAN :
          LET r == DecompressStage(The(compressed), incompleteThrows,
                                   throwsErrorObject)
          IN  IF r.kind = "error"
              THEN Return(FailureResult(r.error))
              ELSE IF r.data = Undefined
              THEN Return(FailureResult(UnknownError))
              ELSE Return(SuccessResult(DecodedStatusList(The(r.data))))
    /\ UNCHANGED <<fetchError, response, credential, statusListCredential,
                   credentialType, compressed, thrown, bitVars, homeVars>>

Next ==
    \/ StartFetch
    \/ FetchRejects
    \/ FetchResolves
    \/ CheckStatus
    \/ JsonSettles
    \/ CheckType
    \/ Unwrap
    \/ Validate
    \/ Base64Decode
    \/ Decompress

Spec == Init /\ [][Next]_vars

(***************************************************************************)
(* SpecBits: the accessor called on a decoded status list, as BitViewer    *)
(* does with decoded.decodedBits and two parsed integers.                  *)
(***************************************************************************)
RECURSIVE SeqsUpTo(_, _)
SeqsUpTo(S, n) ==
    IF n = 0 THEN {<<>>}
    ELSE LET shorter == SeqsUpTo(S, n - 1)
         IN  shorter \cup {Append(q, x) : q \in {r \in shorter : Len(r) = n - 1}, x \in S}

LongBits == [k \in 1..LongLen |-> (k * 7 + 178) % 256]

ByteArrays == SeqsUpTo(ByteVals, MaxLen) \cup {LongBits}

Purposes == {"revocation", "suspension"}

\* The arguments tried on B: everything around the ends of a short array; for
\* the long array the values next to its ends and next to the range-size cap.
Indices(B) ==
    LET maxIndex == Len(B) * 8 - 1
    IN  IF Len(B) <= MaxLen
        THEN (0 - Margin)..(maxIndex + Margin)
        ELSE {-1, 0, 1, maxIndex - MaxRangeSize, maxIndex - MaxRangeSize + 1,
              MaxRangeSize - 1, MaxRangeSize, maxIndex, maxIndex + 1}

\* The calls BitViewer can make on B (part_002 187, 222), on either service.
Queries(B) ==
    {[op |-> name, index |-> i] :
        name \in {"getBitStatus", "getBitStatusOrThrow"}, i \in Indices(B)}
    \cup {[op |-> name, startIndex |-> i, endIndex |-> j] :
             name \in {"getBitRange", "getBitRangeOrThrow"},
             i \in Indices(B), j \in Indices(B)}

InitBits ==
    /\ InitPipeline
    /\ InitPage
    /\ decodedBits \in ByteArrays
    /\ statusPurpose \in Purposes
    /\ query \in Queries(decodedBits)
    /\ answer = NoAnswer

CallGetBitStatus ==
    /\ answer = NoAnswer
    /\ query.op = "getBitStatus"
    /\ answer' = getBitStatus(decodedBits, query.index)
    /\ UNCHANGED <<decodedBits, statusPurpose, query, pipelineVars, homeVars>>

CallGetBitRange ==
    /\ answer = NoAnswer
    /\ query.op = "getBitRange"
    /\ answer' = getBitRange(decodedBits, query.startIndex, query.endIndex)
    /\ UNCHANGED <<decodedBits, statusPurpose, query, pipelineVars, homeVars>>

CallGetBitStatusOrThrow ==
    /\ answer = NoAnswer
    /\ query.op = "getBitStatusOrThrow"
    /\ answer' = getBitStatusOrThrow(decodedBits, query.index)
    /\ UNCHANGED <<decodedBits, statusPurpose, query, pipelineVars, homeVars>>

CallGetBitRangeOrThrow ==
    /\ answer = NoAnswer
    /\ query.op = "getBitRangeOrThrow"
    /\ answer' = getBitRangeOrThrow(decodedBits, query.startIndex, query.endIndex)
    /\ UNCHANGED <<decodedBits, statusPurpose, query, pipelineVars, homeVars>>

NextBits ==
    \/ CallGetBitStatus
    \/ CallGetBitRange
    \/ CallGetBitStatusOrThrow
    \/ CallGetBitRangeOrThrow

SpecBits == InitBits /\ [][NextBits]_vars

(***************************************************************************)
(* SpecEnvelope: decodeEnvelopedCredential called on two enveloped         *)
(* credentials, as line 160 calls it on a fetched document.                *)
(***************************************************************************)
EnvelopeQueries ==
    {[op |-> "decodeEnvelopedCredential", envelopedCred |-> a, other |-> b] :
        a \in EnvelopedDocuments, b \in EnvelopedDocuments}

InitEnvelope ==
    /\ InitPipeline
    /\ InitPage
    /\ decodedBits = <<>>
    /\ statusPurpose = "revocation"
    /\ query \in EnvelopeQueries
    /\ answer = NoAnswer

CallDecodeEnvelopedCredential ==
    /\ answer = NoAnswer
    /\ query.op = "decodeEnvelopedCredential"
    /\ answer' = [kind |-> "decoded",
                  results |-> <<decodeEnvelopedCredential(Some(query.envelopedCred))>>]
    /\ UNCHANGED <<decodedBits, statusPurpose, query, pipelineVars, homeVars>>

CallDecodeOther ==
    /\ answer # NoAnswer
    /\ query.op = "decodeEnvelopedCredential"
    /\ Len(answer.results) = 1
    /\ answer' = [kind |-> "decoded",
                  results |-> Append(answer.results,
                                     decodeEnvelopedCredential(Some(query.other)))]
    /\ UNCHANGED <<decodedBits, statusPurpose, query, pipelineVars, homeVars>>

NextEnvelope == CallDecodeEnvelopedCredential \/ CallDecodeOther

SpecEnvelope == InitEnvelope /\ [][NextEnvelope]_vars

(***************************************************************************)
(* SpecCodec: decodeStatusList called on the Base64URL text of a buffer:   *)
(* a plain buffer, a raw DEFLATE stream or a GZIP stream of one.  The      *)
(* streams are the ones a compressor writes at level 0 (one stored block). *)
(***************************************************************************)
MaxCodecLen == 3     \* plain buffers: every content over CodecBytes

\* As a block header 0 and 1 open a stored block, 239 and 255 have the invalid
\* block type 3; 239 and 255 also give the characters '-' and '_'.
CodecBytes == {0, 1, 239, 255}

PlainBuffers == SeqsUpTo(CodecBytes, MaxCodecLen)

\* deflateRaw(B, { level: 0 }): one final stored block.
DeflateRaw(B) ==
    <<1, Len(B) % 256, Len(B) \div 256, 255 - (Len(B) % 256), 255 - (Len(B) \div 256)>>
        \o B

\* gzip(B, { level: 0 }): header without optional fields, the stored block,
\* CRC-32 and length, both little-endian.
Gzip(B) ==
    LET crc == Crc32(B)
    IN  <<31, 139, 8, 0, 0, 0, 0, 0, 0, 255>>
            \o DeflateRaw(B)
            \o <<crc[2] % 256, crc[2] \div 256, crc[1] % 256, crc[1] \div 256>>
            \o <<Len(B) % 256, Len(B) \div 256, 0, 0>>

\* base64url.encode(B): the '-' / '_' alphabet, no padding.
Base64UrlEncode(B) ==
    LET at(i) == IF i <= Len(B) THEN B[i] ELSE 0
        sextet(k) ==
            LET o == 6 * (k - 1)
                i == (o \div 8) + 1
            IN  ((at(i) * 256 + at(i + 1)) \div (2 ^ (10 - (o % 8)))) % 64
        char(c) == IF c = "+" THEN "-" ELSE IF c = "/" THEN "_" ELSE c
    IN  [k \in 1..((8 * Len(B) + 5) \div 6) |-> char(Base64Alphabet[sextet(k) + 1])]

GzipOf == [B \in PlainBuffers |-> Gzip(B)]

EncodedOf ==
    [B \in PlainBuffers \cup {DeflateRaw(b) : b \in PlainBuffers}
            \cup {GzipOf[b] : b \in PlainBuffers} |-> Base64UrlEncode(B)]

EncodedLists == {EncodedOf[B] : B \in DOMAIN EncodedOf}

InitCodec ==
    /\ InitPipeline
    /\ InitPage
    /\ decodedBits = <<>>
    /\ statusPurpose = "revocation"
    /\ query \in {[op |-> "decodeStatusList", encodedList |-> JStr(chars)] :
                     chars \in EncodedLists}
    /\ answer = NoAnswer

\* decodeStatusList(encodedList); compressed is its local of line 263, fallback
\* whether the handler of line 268 ran.
CallDecodeStatusList ==
    /\ answer = NoAnswer
    /\ query.op = "decodeStatusList"
    /\ \E primaryRaises \in BOOLEAN, incompleteThrows \in BOOLEAN,
          throwsErrorObject \in BOOLEAN :
          LET buffer == Base64UrlStage(query.encodedList, primaryRaises)
          IN  /\ compressed' = IF buffer.kind = "bytes" THEN Some(buffer.bytes)
                               ELSE Undefined
              /\ answer' = [kind |-> "decoded",
                            fallback |-> primaryRaises,
                            result |-> decodeStatusList(query.encodedList,
                                           primaryRaises, incompleteThrows,
                                           throwsErrorObject)]
    /\ UNCHANGED <<decodedBits, statusPurpose, query, pc, stages, fetchError,
                   response, credential, statusListCredential, credentialType,
                   result, thrown, homeVars>>

NextCodec == CallDecodeStatusList

SpecCodec == InitCodec /\ [][NextCodec]_vars

(***************************************************************************)
(* The page: Home (part_004) and StatusListInput (part_003 1-65).  React   *)
(* 18 (Next.js 14) applies the state updates a handler makes between two   *)
(* awaits as one update.  SpecHome calls handleFetchStatusList as a        *)
(* function of its own, SpecInput only through the form.                   *)
(***************************************************************************)
MaxCalls == 2        \* handleFetchStatusList invocations in one run

\* The DecodedStatusList fetchStatusList builds from an embedded document of
\* the model (part_005 231-238).
DecodedOf(doc) ==
    LET subject == The(Get(doc, "credentialSubject"))
        bits == The(decodeStatusList(The(Get(subject, "encodedList")),
                                     FALSE, TRUE, TRUE).data)
    IN  [credential |-> doc,
         bitstringList |-> subject,
         decodedBits |-> bits,
         totalBits |-> Len(bits) * 8,
         credentialType |-> "embedded",
         originalEnvelopedCredential |-> Undefined]

\* What the await of part_004 29 resolves with.
ServiceResults ==
    {SuccessResult(DecodedOf(DocGzip)), SuccessResult(DecodedOf(DocRawDeflate)),
     FailureResult(HttpError(404)), FailureResult(UnknownError)}

Urls == {<<"u">>, <<"v">>}

\* What the user types in the URL field.
FieldTexts == {<<>>, <<" ">>, <<"u">>, <<" ", "u", " ">>, <<"v">>}

\* str.trim()
RECURSIVE trim(_)
trim(str) ==
    IF str # <<>> /\ Head(str) = " " THEN trim(Tail(str))
    ELSE IF str # <<>> /\ str[Len(str)] = " "
    THEN trim(SubSeq(str, 1, Len(str) - 1))
    ELSE str

\* The invocations whose await has not resolved.
Pending == {k \in 1..Len(calls) : calls[k].result = Undefined}

\* A variant of part_004 22-29 without setError(null).
handleFetchStatusList_KeepsError(u) ==
    /\ loading' = TRUE
    /\ decoded' = Undefined
    /\ currentUrl' = u
    /\ autoCheckResult' = Undefined
    /\ calls' = Append(calls, [url |-> u, overlapped |-> Pending # {},
                               result |-> Undefined])
    /\ UNCHANGED error

\* part_004 22-29: handleFetchStatusList(u) up to its await.  overlapped:
\* whether an earlier invocation was still waiting.
handleFetchStatusList(u) ==
    /\ loading' = TRUE
    /\ error' = Undefined
    /\ decoded' = Undefined
    /\ currentUrl' = u
    /\ autoCheckResult' = Undefined
    /\ calls' = Append(calls, [url |-> u, overlapped |-> Pending # {},
                               result |-> Undefined])

\* part_004 31-60: the await of one invocation resolves.  fetchStatusList sets
\* no urlBitIndex, so lines 36-42 do not run; it does not reject, so neither
\* do lines 52-57.
FetchSettles ==
    /\ \E k \in Pending, r \in ServiceResults :
          /\ IF r.success /\ r.data # Undefined
             THEN /\ decoded' = r.data
                  /\ UNCHANGED error
             ELSE /\ error' = IF r.error # Undefined THEN r.error
                              ELSE Some(createError("UNKNOWN_ERROR",
                                       Text("Failed to fetch and decode status list"),
                                       Text("An unexpected error occurred."),
                                       Undefined))
                  /\ UNCHANGED decoded
          /\ calls' = [calls EXCEPT ![k].result = Some(r)]
    /\ loading' = FALSE
    /\ lastEvent' = "settled"
    /\ UNCHANGED <<currentUrl, autoCheckResult, url, bitVars, pipelineVars>>

CallHandleFetchStatusList ==
    /\ Len(calls) < MaxCalls
    /\ \E u \in Urls : handleFetchStatusList(u)
    /\ lastEvent' = "fetch"
    /\ UNCHANGED <<url, bitVars, pipelineVars>>

NextHome == CallHandleFetchStatusList \/ FetchSettles

SpecHome == Init /\ [][NextHome]_vars

\* part_003 38: onChange of the URL field, disabled while loading (line 41).
ChangeUrl ==
    /\ ~loading
    /\ \E text \in FieldTexts \ {url} : url' = text
    /\ lastEvent' = "change"
    /\ UNCHANGED <<loading, decoded, error, currentUrl, autoCheckResult, calls,
                   bitVars, pipelineVars>>

\* A variant of part_003 14-19 that does not look at loading.
handleSubmit_NoLoadingCheck ==
    IF trim(url) # <<>>
    THEN /\ Len(calls) < MaxCalls
         /\ handleFetchStatusList(trim(url))
         /\ lastEvent' = "fetch"
         /\ UNCHANGED <<url, bitVars, pipelineVars>>
    ELSE /\ lastEvent' = "ignored"
         /\ UNCHANGED <<loading, decoded, error, currentUrl, autoCheckResult, url,
                        calls, bitVars, pipelineVars>>

\* part_003 14-19: handleSubmit; onFetch is Home's handleFetchStatusList and
\* loading is Home's loading (part_004 90).
handleSubmit ==
    IF trim(url) # <<>> /\ ~loading
    THEN /\ Len(calls) < MaxCalls
         /\ handleFetchStatusList(trim(url))
         /\ lastEvent' = "fetch"
         /\ UNCHANGED <<url, bitVars, pipelineVars>>
    ELSE /\ lastEvent' = "ignored"
         /\ UNCHANGED <<loading, decoded, error, currentUrl, autoCheckResult, url,
                        calls, bitVars, pipelineVars>>

NextInput == ChangeUrl \/ handleSubmit \/ FetchSettles

SpecInput == Init /\ [][NextInput]_vars

(***************************************************************************)
(* Claims about the bit accessor, checked under SpecBits.                  *)
(***************************************************************************)
MaxIndexOf(B) == 8 * Len(B) - 1

BitStatusCalled == query.op = "getBitStatus" /\ answer # NoAnswer
BitRangeCalled == query.op = "getBitRange" /\ answer # NoAnswer

\* ((B[floor(i/8)] >> (i mod 8)) & 1) != 0
ShiftedBit(B, i) == ((B[(i \div 8) + 1] \div (2 ^ (i % 8))) % 2) = 1

\* C1: for an index inside 0..8*len(B)-1, getBitStatus returns the boolean
\* ((B[floor(i/8)] >> (i mod 8)) & 1) != 0 (bit 0 is the least significant bit
\* of its byte) and never an error.
C1_GetBitStatusIsLsbFirstBit ==
    (BitStatusCalled /\ 0 <= query.index /\ query.index <= MaxIndexOf(decodedBits))
        => answer = Bool(ShiftedBit(decodedBits, query.index))

\* A set bit read from the second byte of an array whose bytes are not
\* symmetric: index 12 is bit 4 of 178 = 10110010b.
C1_Witness ==
    /\ BitStatusCalled
    /\ decodedBits = <<0, 178>>
    /\ query.index = 12
    /\ answer = Bool(TRUE)

\* C2: for an index below 0 or at least 8*len(B) (the empty array included),
\* getBitStatus returns a DetailedError with code INVALID_BIT_INDEX, never a
\* boolean.
C2_GetBitStatusRejectsOutOfRange ==
    (BitStatusCalled /\ (query.index < 0 \/ query.index >= 8 * Len(decodedBits)))
        => (answer.kind = "error" /\ answer.code = "INVALID_BIT_INDEX")

\* Index 0 of the empty array is rejected.
C2_Witness ==
    /\ BitStatusCalled
    /\ decodedBits = <<>>
    /\ query.index = 0
    /\ answer.kind = "error"
    /\ answer.code = "INVALID_BIT_INDEX"

RangeInBounds ==
    /\ 0 <= query.startIndex
    /\ query.startIndex <= query.endIndex
    /\ query.endIndex <= MaxIndexOf(decodedBits)

\* C3: for 0 <= start <= end <= 8*len(B)-1 and end-start+1 <= 10000,
\* getBitRange returns exactly end-start+1 entries, the k-th with index start+k
\* and with the status getBitStatus gives for that index.
C3_GetBitRangeEntries ==
    (BitRangeCalled /\ RangeInBounds
        /\ query.endIndex - query.startIndex + 1 <= 10000)
        => /\ answer.kind = "array"
           /\ Len(answer.entries) = query.endIndex - query.startIndex + 1
           /\ \A k \in 1..Len(answer.entries) :
                /\ answer.entries[k].index = query.startIndex + k - 1
                /\ getBitStatus(decodedBits, query.startIndex + k - 1)
                     = Bool(answer.entries[k].status)

\* A range of exactly 10000 bits that starts inside a byte, with set and unset
\* bits in it.
C3_Witness ==
    /\ BitRangeCalled
    /\ answer.kind = "array"
    /\ query.startIndex = 1
    /\ Len(answer.entries) = 10000
    /\ \E k \in 1..Len(answer.entries) : answer.entries[k].status
    /\ \E k \in 1..Len(answer.entries) : ~answer.entries[k].status

RangeRejected ==
    \/ query.startIndex < 0
    \/ query.endIndex < query.startIndex
    \/ query.startIndex > MaxIndexOf(decodedBits)
    \/ query.endIndex > MaxIndexOf(decodedBits)
    \/ query.endIndex - query.startIndex + 1 > 10000

\* C4: getBitRange returns a DetailedError with code INVALID_BIT_RANGE, and no
\* array, exactly when start < 0, end < start, start or end beyond 8*len(B)-1,
\* or end-start+1 > 10000.
C4_GetBitRangeErrorIff ==
    BitRangeCalled
        => /\ RangeRejected => (answer.kind = "error" /\ answer.code = "INVALID_BIT_RANGE")
           /\ ~RangeRejected => answer.kind = "array"

\* A range inside the array rejected only for its size.
C4_Witness ==
    /\ BitRangeCalled
    /\ RangeInBounds
    /\ query.endIndex - query.startIndex + 1 = 10001
    /\ answer.kind = "error"
    /\ answer.code = "INVALID_BIT_RANGE"

\* C5: every entry getBitRange returns carries as purpose the statusPurpose the
\* credential being read declares.
C5_PurposeIsDeclaredStatusPurpose ==
    (BitRangeCalled /\ answer.kind = "array")
        => \A k \in 1..Len(answer.entries) :
              answer.entries[k].purpose = statusPurpose

(***************************************************************************)
(* Claims about fetchStatusList, checked under Spec.                       *)
(***************************************************************************)
StageOrder ==
    <<"fetch", "status", "json", "type", "unwrap", "validate", "base64", "decompress">>

Returned == pc = "done" /\ result # Undefined

ReturnedFailure == Returned /\ ~The(result).success

ReturnedSuccess == Returned /\ The(result).success

ErrorOf(r) == The(r.error)

\* Every stage of the call in progress has succeeded, told from what the
\* stages were given: the response, the document, the list and its bytes.
AllStagesSucceeded ==
    /\ stages = StageOrder
    /\ fetchError = Undefined
    /\ response # Undefined /\ The(response).ok
    /\ credential # Undefined
    /\ ~ThrowsOnRead(credential)
    /\ ~Falsy(Get(The(credential), "type"))
    /\ statusListCredential # Undefined
    /\ ~Falsy(bitstringList)
    /\ IsString(Get(The(bitstringList), "type"), BitstringStatusList)
    /\ ~Falsy(Get(The(bitstringList), "encodedList"))
    /\ compressed # Undefined
    /\ thrown = {}

\* C6: what fetchStatusList returns is either a success with data and no
\* error or a failure with an error and no data, and the data is there only
\* when every stage of the pipeline has succeeded.
C6_ResultIsDiscriminated ==
    /\ result # Undefined => pc = "done"
    /\ Returned =>
         LET r == The(result)
         IN  \/ /\ r.success
                /\ r.data # Undefined
                /\ r.error = Undefined
                /\ AllStagesSucceeded
                /\ The(r.data).totalBits = 8 * Len(The(r.data).decodedBits)
             \/ /\ ~r.success
                /\ r.error # Undefined
                /\ ErrorOf(r).kind = "error"
                /\ r.data = Undefined

\* An enveloped credential fetched, unwrapped and decoded to its two bytes.
C6_Witness ==
    /\ ReturnedSuccess
    /\ The(credentialType) = "enveloped"
    /\ The(The(result).data).decodedBits = <<178, 1>>
    /\ The(The(result).data).totalBits = 16

\* C7: fetchStatusList, decodeStatusList and decodeEnvelopedCredential never
\* throw, and every error they return has a code of the ErrorCode enumeration.
C7_NeverThrowsCodesInTaxonomy ==
    /\ thrown = {}
    /\ ReturnedFailure => ErrorOf(The(result)).code \in ErrorCode

IsPrefix(s, t) == Len(s) <= Len(t) /\ SubSeq(t, 1, Len(s)) = s

Last(s) == s[Len(s)]

\* The codes each stage can fail with.
StageCodes(stage) ==
    CASE stage = "fetch" -> {"CORS_ERROR", "NETWORK_ERROR"}
      [] stage = "status" ->
           {"NOT_FOUND", "UNAUTHORIZED", "FORBIDDEN", "SERVER_ERROR", "BAD_GATEWAY",
            "SERVICE_UNAVAILABLE"}
      [] stage = "json" -> {"INVALID_JSON"}
      [] stage = "type" -> {"MISSING_CREDENTIAL_TYPE", "UNKNOWN_ERROR"}
      [] stage = "unwrap" ->
           {"INVALID_CREDENTIAL_FORMAT", "JWT_PARSE_ERROR", "BASE64_DECODE_ERROR",
            "INVALID_JSON", "UNSUPPORTED_CREDENTIAL_TYPE", "UNKNOWN_ERROR"}
      [] stage = "validate" -> {"MISSING_BITSTRING_LIST", "INVALID_CREDENTIAL_FORMAT"}
      [] stage = "base64" -> {"BASE64_DECODE_ERROR", "UNKNOWN_ERROR"}
      [] stage = "decompress" -> {"GZIP_DECODE_ERROR", "UNKNOWN_ERROR"}

StagesInOrder ==
    /\ IsPrefix(stages, StageOrder)
    /\ pc # "idle" => Len(stages) >= 1
    /\ ReturnedSuccess => stages = StageOrder
    /\ ReturnedFailure => ErrorOf(The(result)).code \in StageCodes(Last(stages))

\* A step either runs the next stage of the call in progress, which has not
\* returned yet, or begins a new call, or runs no stage at all.
StageStep ==
    \/ stages' = stages
    \/ /\ result = Undefined
       /\ Len(stages) < Len(StageOrder)
       /\ stages' = Append(stages, StageOrder[Len(stages) + 1])
    \/ /\ pc \in {"idle", "done"}
       /\ stages' = <<"fetch">>
       /\ result' = Undefined

\* C8: one call runs the stages in the fixed order fetch, status check, JSON
\* parse, type check, unwrap, validation, base64url decode, decompression,
\* each at most once, the fetch exactly once; after a stage fails no later
\* stage runs, and the error returned is that of the stage that failed.
C8_StagesInFixedOrder == [](StagesInOrder) /\ [][StageStep]_vars

\* A call that stopped at the validation stage, after six stages.
C8_Witness ==
    /\ ReturnedFailure
    /\ stages = SubSeq(StageOrder, 1, 6)
    /\ ErrorOf(The(result)).code = "MISSING_BITSTRING_LIST"

\* The code the claim gives for a status.
CodeOfStatus(s) ==
    CASE s = 404 -> "NOT_FOUND"
      [] s = 401 -> "UNAUTHORIZED"
      [] s = 403 -> "FORBIDDEN"
      [] s = 500 -> "SERVER_ERROR"
      [] s = 502 -> "BAD_GATEWAY"
      [] s = 503 -> "SERVICE_UNAVAILABLE"
      [] OTHER -> "SERVER_ERROR"

NamedStatuses == {401, 403, 404, 500, 502, 503}

InArgs(x, message) == \E k \in 1..Len(message.args) : message.args[k] = x

StatusRejected == response # Undefined /\ ~The(response).ok /\ pc # "status"

\* C9: on a response whose status s is not ok the result is a failure with
\* statusCode s and the code of s, for any other status SERVER_ERROR with the
\* number in the message, and the body is never parsed.
C9_HttpStatusMapping ==
    StatusRejected =>
        LET s == The(response).status
        IN  /\ ReturnedFailure
            /\ ErrorOf(The(result)).code = CodeOfStatus(s)
            /\ ErrorOf(The(result)).statusCode = Some(s)
            /\ s \notin NamedStatuses => InArgs(s, ErrorOf(The(result)).message)
            /\ stages = <<"fetch", "status">>
            /\ credential = Undefined

\* A 503 answered with SERVICE_UNAVAILABLE.
C9_Witness ==
    /\ StatusRejected
    /\ The(response).status = 503
    /\ ErrorOf(The(result)).code = "SERVICE_UNAVAILABLE"
    /\ ErrorOf(The(result)).statusCode = Some(503)

\* What fetchStatusList takes for a cross-origin rejection: a TypeError whose
\* message names CORS.
CrossOriginRejection(e) == e.class = "TypeError" /\ e.mentionsCORS

NoTypeField ==
    /\ credential # Undefined
    /\ ~ThrowsOnRead(credential)
    /\ Get(The(credential), "type") = Undefined

FetchedEnveloped ==
    Get(The(credential), "type") = Some(JStr(EnvelopedVerifiableCredential))

DataOf(r) == The(r.data)

\* C12: on every success credentialType is 'enveloped' exactly when the
\* fetched document's type is the string 'EnvelopedVerifiableCredential' and
\* 'embedded' otherwise; originalEnvelopedCredential is the fetched wrapper
\* exactly for enveloped input and absent otherwise; credential is the JWT
\* payload for enveloped input and the fetched document for embedded input.
C12_ShapeTagAndWrapper ==
    ReturnedSuccess =>
        LET data == DataOf(The(result))
        IN  IF FetchedEnveloped
            THEN /\ data.credentialType = "enveloped"
                 /\ data.originalEnvelopedCredential = credential
                 /\ data.credential \in {GoodPayloadValue, UrlSafePayloadValue}
                 /\ data.credential =
                       decodeEnvelopedCredential(credential).credential
                 /\ data.credential # The(credential)
            ELSE /\ data.credentialType = "embedded"
                 /\ data.originalEnvelopedCredential = Undefined
                 /\ data.credential = The(credential)

\* An enveloped credential whose payload needs the URL-safe alphabet, returned
\* with its wrapper.
C12_Witness ==
    /\ ReturnedSuccess
    /\ FetchedEnveloped
    /\ DataOf(The(result)).credentialType = "enveloped"
    /\ DataOf(The(result)).credential = UrlSafePayloadValue
    /\ DataOf(The(result)).originalEnvelopedCredential = credential

\* The fetched document has a type that passed the check of the type stage and
\* is not the string 'EnvelopedVerifiableCredential', and the unwrap stage has
\* run.
OtherTypeUnwrapped ==
    /\ credential # Undefined
    /\ ~ThrowsOnRead(credential)
    /\ ~Falsy(Get(The(credential), "type"))
    /\ ~FetchedEnveloped
    /\ Len(stages) >= 5

TreatedAsEmbedded ==
    /\ statusListCredential = credential
    /\ credentialType = Some("embedded")
    /\ ReturnedFailure =>
          ErrorOf(The(result)).code
              \notin {"MISSING_CREDENTIAL_TYPE", "UNSUPPORTED_CREDENTIAL_TYPE"}

EnvelopeDecoded == query.op = "decodeEnvelopedCredential" /\ answer # NoAnswer

Decoded == answer.results[1]

IdOf(doc) == Get(doc, "id")

IsJwtParseError(r) == r.kind = "error" /\ r.error.code = "JWT_PARSE_ERROR"

\* The recognized prefixes the characters begin with.
PrefixesOf(chars) ==
    {k \in 1..Len(possiblePrefixes) :
        /\ Len(chars) >= Len(possiblePrefixes[k])
        /\ \A i \in 1..Len(possiblePrefixes[k]) : chars[i] = possiblePrefixes[k][i]}

\* The characters after their first n.
After(chars, n) == [i \in 1..(Len(chars) - n) |-> chars[i + n]]

\* The characters of doc's id after the recognized prefix it begins with.
RemainderOf(doc) ==
    LET chars == The(IdOf(doc)).chars
    IN  After(chars, Len(possiblePrefixes[CHOOSE k \in PrefixesOf(chars) : TRUE]))

DotsOf(chars) == {i \in 1..Len(chars) : chars[i] = "."}

\* The characters between the first and the second dot of a token with two dots.
MiddleOf(chars) ==
    LET first == CHOOSE i \in DotsOf(chars) : \A j \in DotsOf(chars) : i <= j
        second == CHOOSE i \in DotsOf(chars) : \A j \in DotsOf(chars) : j <= i
    IN  [i \in 1..(second - first - 1) |-> chars[i + first]]

StringId(doc) == IdOf(doc) # Undefined /\ The(IdOf(doc)).kind = "string"

HasPrefix(doc) == StringId(doc) /\ PrefixesOf(The(IdOf(doc)).chars) # {}

\* C14: on an id that begins with one of the four recognized prefixes,
\* decodeEnvelopedCredential removes that prefix, once, and takes all that
\* follows for the JWT; on a missing or empty id, and on an id that begins
\* with none of the four, it returns JWT_PARSE_ERROR.
C14_OnePrefixRemovedOnce ==
    EnvelopeDecoded =>
        LET doc == query.envelopedCred
        IN  /\ Falsy(IdOf(doc)) => IsJwtParseError(Decoded)
            /\ (StringId(doc) /\ ~HasPrefix(doc)) => IsJwtParseError(Decoded)
            /\ HasPrefix(doc) =>
                 LET rest == RemainderOf(doc)
                 IN  /\ Cardinality(PrefixesOf(The(IdOf(doc)).chars)) = 1
                     /\ rest = <<>> =>
                          /\ IsJwtParseError(Decoded)
                          /\ Decoded.error.message = Text("Empty JWT token")
                     /\ (rest # <<>> /\ Cardinality(DotsOf(rest)) # 2) =>
                          /\ IsJwtParseError(Decoded)
                          /\ Decoded.error.message = Text("Invalid JWT structure")
                          /\ Decoded.error.details.args
                                = <<Cardinality(DotsOf(rest)) + 1>>
                     /\ (Cardinality(DotsOf(rest)) = 2
                            /\ MiddleOf(rest) = GoodPayloadSegment) =>
                          /\ Decoded.kind = "credential"
                          /\ Decoded.credential = GoodPayloadValue

\* An id made of two prefixes: what follows the first, a prefix, is taken for
\* a token of one segment.
C14_Witness ==
    /\ EnvelopeDecoded
    /\ IdOf(query.envelopedCred) = Some(JStr(PrefixVcJwt \o PrefixJwt))
    /\ IsJwtParseError(Decoded)
    /\ Decoded.error.details.args = <<1>>

\* The credential's id begins with a recognized prefix and a token follows it.
HasToken(doc) == HasPrefix(doc) /\ RemainderOf(doc) # <<>>

ThreeSegments(chars) == Cardinality(DotsOf(chars)) = 2

\* The token has exactly 3 segments and the second is not empty.
WellFormedToken(chars) == ThreeSegments(chars) /\ MiddleOf(chars) # <<>>

\* What decoding the payload can end in.
PayloadDecodingOutcome(r) ==
    \/ r.kind = "credential"
    \/ /\ r.kind = "error"
       /\ r.error.code \in {"BASE64_DECODE_ERROR", "INVALID_JSON",
                            "INVALID_CREDENTIAL_FORMAT", "UNKNOWN_ERROR"}

\* C15: after the prefix is removed, decodeEnvelopedCredential returns
\* JWT_PARSE_ERROR whenever the token does not split on '.' into exactly 3
\* segments and whenever the second segment is empty; only a token of 3
\* segments with a non-empty second segment reaches payload decoding.
C15_ThreeSegmentsNonEmptyPayload ==
    (EnvelopeDecoded /\ HasToken(query.envelopedCred)) =>
        LET rest == RemainderOf(query.envelopedCred)
        IN  /\ ~ThreeSegments(rest) =>
                 /\ IsJwtParseError(Decoded)
                 /\ Decoded.error.message = Text("Invalid JWT structure")
            /\ (ThreeSegments(rest) /\ MiddleOf(rest) = <<>>) =>
                 /\ IsJwtParseError(Decoded)
                 /\ Decoded.error.message = Text("Empty JWT payload")
            /\ WellFormedToken(rest) =>
                 /\ ~IsJwtParseError(Decoded)
                 /\ PayloadDecodingOutcome(Decoded)

\* A token whose header and signature are empty and whose payload is not: it
\* has 3 segments and is decoded.
C15_Witness ==
    /\ EnvelopeDecoded
    /\ IdOf(query.envelopedCred)
          = Some(JStr(PrefixVcLdJwt \o Jwt(<<>>, GoodPayloadSegment, <<>>)))
    /\ Decoded.kind = "credential"

\* The payload padded with '=' to a multiple of 4 characters.
Padded(chars) == chars \o [i \in 1..((4 - (Len(chars) % 4)) % 4) |-> "="]

\* '-' for '+' and '_' for '/'.
Translated(chars) ==
    [i \in 1..Len(chars) |->
        CASE chars[i] = "-" -> "+" [] chars[i] = "_" -> "/" [] OTHER -> chars[i]]

HasErrorCode(r, code) == r.kind = "error" /\ r.error.code = code

BothDecoded == EnvelopeDecoded /\ Len(answer.results) = 2

\* C17: two enveloped credentials whose tokens have exactly 3 segments and the
\* same second segment give the same result, whatever their header and
\* signature segments are.
C17_ResultDependsOnPayloadOnly ==
    (BothDecoded /\ HasToken(query.envelopedCred) /\ HasToken(query.other)
        /\ ThreeSegments(RemainderOf(query.envelopedCred))
        /\ ThreeSegments(RemainderOf(query.other))
        /\ MiddleOf(RemainderOf(query.envelopedCred))
              = MiddleOf(RemainderOf(query.other)))
        => answer.results[1] = answer.results[2]

\* The same payload under two prefixes, once with a header and a signature and
\* once with a header that is not Base64URL and no signature.
C17_Witness ==
    /\ BothDecoded
    /\ IdOf(query.envelopedCred)
          = Some(JStr(PrefixJwt \o Jwt(HeaderSegment, GoodPayloadSegment,
                                       SignatureSegment)))
    /\ IdOf(query.other)
          = Some(JStr(PrefixVcLdJwt \o Jwt(FreeTextSegment, GoodPayloadSegment,
                                           <<>>)))
    /\ answer.results[1].kind = "credential"
    /\ answer.results[1] = answer.results[2]

(***************************************************************************)
(* Claims about validation and decoding in fetchStatusList, checked under  *)
(* Spec.                                                                   *)
(***************************************************************************)
\* The validation stage has run on an unwrapped credential.
Validated == statusListCredential # Undefined /\ Len(stages) >= 6

SubjectOf(cred) == Get(cred, "credentialSubject")

StoppedAtValidation(code, message) ==
    /\ ReturnedFailure
    /\ stages = SubSeq(StageOrder, 1, 6)
    /\ ErrorOf(The(result)).code = code
    /\ ErrorOf(The(result)).message = Text(message)

ValidatorPasses ==
    /\ statusListCredential # Undefined
    /\ ~Falsy(SubjectOf(The(statusListCredential)))
    /\ Get(The(SubjectOf(The(statusListCredential))), "type")
          = Some(JStr(BitstringStatusList))
    /\ ~Falsy(Get(The(SubjectOf(The(statusListCredential))), "encodedList"))

\* decodeStatusList has been called in this invocation.
DecodingStarted == Len(stages) >= 7 \/ compressed # Undefined \/ thrown # {}

\* C19: decodeStatusList is called only after the three validator checks have
\* passed, and an invocation that ends with a validator error has decoded and
\* decompressed nothing.
C19_ValidationBeforeDecoding ==
    /\ DecodingStarted => (ValidatorPasses /\ stages[6] = "validate")
    /\ pc \in {"base64", "decompress"} => ValidatorPasses
    /\ (ReturnedFailure /\ Len(stages) = 6) =>
          /\ ErrorOf(The(result)).code
                \in {"MISSING_BITSTRING_LIST", "INVALID_CREDENTIAL_FORMAT"}
          /\ ~DecodingStarted
          /\ ~ValidatorPasses

\* A credential with an empty encodedList, rejected with nothing decoded.
C19_Witness ==
    /\ ReturnedFailure
    /\ credential = Some(DocEmptyList)
    /\ ErrorOf(The(result)).message = Text("Missing encoded list")
    /\ ~DecodingStarted

\* The decompression stage has run on a buffer that begins with 0x1f 0x8b.
GzipBufferDecompressed ==
    /\ compressed # Undefined
    /\ Len(stages) = 8
    /\ Len(The(compressed)) >= 2
    /\ The(compressed)[1] = 31
    /\ The(compressed)[2] = 139

\* C20: a buffer that begins with 0x1f 0x8b is inflated as GZIP only; if that
\* fails the result is GZIP_DECODE_ERROR with the codec's failure message in
\* its details, and neither raw DEFLATE nor the pass-through is attempted.
C20_GzipOnlyWithCodecMessage ==
    GzipBufferDecompressed =>
        LET inflated == inflateGzip(The(compressed))
        IN  IF inflated.status = "end"
            THEN /\ ReturnedSuccess
                 /\ DataOf(The(result)).decodedBits = inflated.data
            ELSE /\ ReturnedFailure
                 /\ ErrorOf(The(result)).code = "GZIP_DECODE_ERROR"
                 /\ inflated.status = "error" =>
                       InArgs(inflated.message, ErrorOf(The(result)).details)

(***************************************************************************)
(* Claims about decodeStatusList, checked under SpecCodec.                 *)
(***************************************************************************)
CodecDecoded == query.op = "decodeStatusList" /\ answer # NoAnswer

NoMagicBufferDecoded ==
    /\ CodecDecoded
    /\ compressed # Undefined
    /\ ~(/\ Len(The(compressed)) >= 2
         /\ The(compressed)[1] = 31
         /\ The(compressed)[2] = 139)

\* C21: when the decoded buffer does not start with 1f 8b (buffers shorter than
\* 2 bytes included), decodeStatusList returns the output of raw DEFLATE where
\* raw DEFLATE succeeds and otherwise a byte-for-byte copy of the buffer, never
\* an error.
C21_RawDeflateThenPassThrough ==
    NoMagicBufferDecoded =>
        LET inflated == inflateRaw(The(compressed))
        IN  /\ answer.result.kind = "data"
            /\ answer.result.data =
                   Some(IF inflated.status = "end" THEN inflated.data
                        ELSE The(compressed))

\* C22: for every byte array B, the GZIP compression of B goes through
\* decodeStatusList's decompression to exactly B: no error, not the compressed
\* bytes.
C22_GzipRoundTrip ==
    CodecDecoded =>
        \A B \in PlainBuffers :
            query.encodedList = JStr(EncodedOf[GzipOf[B]]) =>
                answer.result = [kind |-> "data", data |-> Some(B)]

C22_Witness ==
    /\ CodecDecoded
    /\ query.encodedList = JStr(EncodedOf[GzipOf[<<239, 0, 255>>]])
    /\ answer.result = [kind |-> "data", data |-> Some(<<239, 0, 255>>)]

\* C23: for every byte array B, the unpadded Base64URL text of B is decoded to
\* exactly B by decodeStatusList, by the library call and by the manual
\* fallback alike.
C23_Base64UrlRoundTrip ==
    CodecDecoded =>
        \A B \in DOMAIN EncodedOf :
            query.encodedList = JStr(EncodedOf[B]) => compressed = Some(B)

C23_Witness ==
    /\ CodecDecoded
    /\ answer.fallback
    /\ query.encodedList = JStr(<<"_", "-", "8">>)
    /\ compressed = Some(<<255, 239>>)

(***************************************************************************)
(* Further claims about fetchStatusList, checked under Spec.               *)
(***************************************************************************)
\* C24: on every successful result totalBits = 8 * decodedBits.length:
\* getBitStatus on decodedBits gives a boolean for exactly the indices
\* 0 <= i < totalBits and INVALID_BIT_INDEX outside, and formatCredentialInfo
\* reports the same totalBits.
C24_TotalBitsIsEightPerByte ==
    ReturnedSuccess =>
        LET data == DataOf(The(result))
            n == data.totalBits
        IN  /\ n = 8 * Len(data.decodedBits)
            /\ \A i \in (0 - Margin)..(n + Margin) :
                  LET status == getBitStatus(data.decodedBits, i)
                  IN  IF 0 <= i /\ i < n
                      THEN status.kind = "boolean"
                      ELSE status.kind = "error" /\ status.code = "INVALID_BIT_INDEX"
            /\ formatCredentialInfo(data).totalBits = n

C24_Witness ==
    /\ ReturnedSuccess
    /\ Len(DataOf(The(result)).decodedBits) = 2
    /\ formatCredentialInfo(DataOf(The(result))).totalBits = 16

\* C27: a fetched document of type 'EnvelopedVerifiableCredential' never ends
\* in MISSING_BITSTRING_LIST: a payload without credentialSubject is rejected
\* by decodeEnvelopedCredential with INVALID_CREDENTIAL_FORMAT, so only an
\* embedded document reaches the validator without a credentialSubject.
C27_EnvelopedNeverMissingBitstringList ==
    (ReturnedFailure /\ credential # Undefined
        /\ ErrorOf(The(result)).code = "MISSING_BITSTRING_LIST") =>
            /\ ~FetchedEnveloped
            /\ credentialType = Some("embedded")

C27_Witness ==
    /\ ReturnedFailure
    /\ credential =
          Some(Enveloped(JStr(PrefixVcLdJwt \o Jwt(HeaderSegment,
                   NoSubjectPayloadSegment, SignatureSegment))))
    /\ ErrorOf(The(result)).code = "INVALID_CREDENTIAL_FORMAT"
    /\ Last(stages) = "unwrap"

(***************************************************************************)
(* Further claims about the bit accessor, checked under SpecBits.          *)
(***************************************************************************)
\* C26: a rejected range names the first bound violated in the order negative
\* start, end < start, start > maxIndex, end > maxIndex, range too large: with
\* 0 <= start <= end a start beyond maxIndex gives 'Start index out of range',
\* 'End index out of range' comes only with the start within bounds and
\* 'Range too large' only with both bounds within bounds.
C26_MessageNamesFirstViolatedBound ==
    (BitRangeCalled /\ answer.kind = "error") =>
        LET first == query.startIndex
            last == query.endIndex
            maxIndex == MaxIndexOf(decodedBits)
            text == answer.message.text
        IN  /\ answer.code = "INVALID_BIT_RANGE"
            /\ text = (IF first < 0 THEN "Invalid start index"
                       ELSE IF last < first THEN "Invalid bit range"
                       ELSE IF first > maxIndex THEN "Start index out of range"
                       ELSE IF last > maxIndex THEN "End index out of range"
                       ELSE "Range too large")
            /\ (0 <= first /\ first <= last /\ first > maxIndex) =>
                  text = "Start index out of range"
            /\ text = "End index out of range" => (0 <= first /\ first <= maxIndex)
            /\ text = "Range too large" =>
                  (0 <= first /\ first <= maxIndex /\ last <= maxIndex)

\* Both bounds beyond the last bit of a one-byte list: the start is named.
C26_Witness ==
    /\ BitRangeCalled
    /\ decodedBits = <<178>>
    /\ query.startIndex = 8
    /\ query.endIndex = 9
    /\ answer.message.text = "Start index out of range"

\* C30: the accessor of the service that throws agrees with the accessor that
\* returns errors: getBitStatus throws exactly where the other returns
\* INVALID_BIT_INDEX (negative index, or 8 * length and beyond) and returns the
\* same boolean elsewhere; getBitRange throws exactly on the ranges of span up
\* to 10000 that the other rejects and returns the same entries elsewhere.
C30_ThrowingVariantAgrees ==
    /\ (query.op = "getBitStatusOrThrow" /\ answer # NoAnswer) =>
          LET returned == getBitStatus(decodedBits, query.index)
          IN  IF returned.kind = "error"
              THEN returned.code = "INVALID_BIT_INDEX" /\ answer.kind = "thrown"
              ELSE answer = returned
    /\ (/\ query.op = "getBitRangeOrThrow"
        /\ answer # NoAnswer
        /\ query.endIndex - query.startIndex + 1 <= MaxRangeSize) =>
          LET returned == getBitRange(decodedBits, query.startIndex, query.endIndex)
          IN  IF returned.kind = "error"
              THEN returned.code = "INVALID_BIT_RANGE" /\ answer.kind = "thrown"
              ELSE answer = returned

(***************************************************************************)
(* Claims about the page, checked under SpecHome and SpecInput.            *)
(***************************************************************************)
\* The page shows the outcome r and nothing else.
Shows(r) ==
    IF r.success /\ r.data # Undefined
    THEN decoded = r.data /\ error = Undefined
    ELSE decoded = Undefined /\ error = r.error

Blank == decoded = Undefined /\ error = Undefined

SomeOverlap == \E k \in 1..Len(calls) : calls[k].overlapped

C28_PageStateConsistent ==
    (~SomeOverlap) =>
        /\ ~(decoded # Undefined /\ error # Undefined)
        /\ loading => Blank
        /\ (calls # <<>> /\ Last(calls).result # Undefined) =>
              LET r == The(Last(calls).result)
              IN  /\ ~loading
                  /\ (decoded # Undefined) # (error # Undefined)
                  /\ (decoded # Undefined) <=> (r.success /\ r.data # Undefined)
                  /\ Shows(r)

\* A failed call, then a successful one.
C28_Witness ==
    /\ Len(calls) = 2
    /\ ~SomeOverlap
    /\ calls[1].result = Some(FailureResult(HttpError(404)))
    /\ calls[2].result = Some(SuccessResult(DecodedOf(DocGzip)))
    /\ decoded = Some(DecodedOf(DocGzip))
    /\ error = Undefined
    /\ ~loading

\* C29: with fetches started only by StatusListInput's handleSubmit at most one
\* fetchStatusList invocation is in flight, and no step starts one while
\* loading is true or the URL is blank.
C29_AtMostOneInFlight ==
    /\ [](Cardinality(Pending) <= 1)
    /\ [][(loading \/ trim(url) = <<>>) => Len(calls') = Len(calls)]_vars

\* A submit with a URL in the field was ignored while a fetch is in flight.
C29_Witness ==
    /\ lastEvent = "ignored"
    /\ loading
    /\ trim(url) = <<"u">>
    /\ Cardinality(Pending) = 1

====
